---- MODULE Spec2Model ----
(***************************************************************************)
(* Seat ledger and booking store of the event-finder backend.              *)
(*                                                                         *)
(* The persistent store (MongoDB, reached through Mongoose) is modelled by *)
(* the variables events, bookings and created.  Every HTTP request is a    *)
(* slot of req: a handler runs from one awaited database call to the next, *)
(* so one action is one database call together with the synchronous code   *)
(* that follows it up to the next await.  The synchronous code in front of *)
(* the first await touches no shared state and is folded into the first    *)
(* database call of the handler.                                           *)
(*                                                                         *)
(* Document.save() of a loaded document sends $set for the paths that were *)
(* modified on the local copy (absolute values, not increments), runs the  *)
(* schema validators of those paths first, and rejects with                *)
(* DocumentNotFoundError when no stored document has the _id any more.     *)
(***************************************************************************)
EXTENDS Integers, Sequences, FiniteSets, TLC

\* ---------------------------------------------------------------- bounds
MaxEvents == 1
MaxBookings == 2
MaxSeats == 2
MaxPrice == 2
MaxWishes == 3
MaxRefs == 2
MaxRegistered == 1
NumReqs == 2

EventIds == 1..MaxEvents
\* Repeated releases would let availableSeats grow without limit; the model
\* follows it up to SeatCap.
SeatCap == MaxSeats + 1
Reqs == 1..NumReqs

\* ---------------------------------------------------------------- callers
\* Every caller holds a verified token carrying (id, role).
Users == {"u1", "o1", "a1"}

\* The callers that book seats, and the callers that submit events: a plain
\* user and an organizer.
Bookers == {"u1", "o1"}
Submitters == {"u1", "o1"}

Role(u) == CASE u = "u1" -> "user"
             [] u = "o1" -> "organizer"
             [] OTHER    -> "admin"

\* A gate that lets every authenticated caller through.
OrganizerGateOff(u) == TRUE

\* middleware/auth.js organizerMiddleware: passes organizer and admin.
OrganizerGate(u) == Role(u) = "organizer" \/ Role(u) = "admin"

\* ---------------------------------------------------------------- inputs
\* A request-body field is <<>> when absent and <<v>> when present.
SeatInputs == {<<>>} \cup {<<v>> : v \in -1..MaxSeats}
EventIdInputs == {<<>>} \cup {<<e>> : e \in EventIds}

\* JavaScript truthiness of a numeric body field (undefined and 0 are falsy).
Truthy(x) == x # <<>> /\ x[1] # 0

PriceInputs == {<<>>} \cup {<<p>> : p \in -1..MaxPrice}

\* Text is a sequence of letters.  The titles events are submitted with, and
\* the reasons a rejection is submitted with: blank, too short with and without
\* padding, and long enough with and without padding.
Titles == {<<"j", "a", "m">>, <<"G", "Y", "M">>}
TitleInputs == {<<>>, <<<<>>>>} \cup {<<t>> : t \in Titles}
Reasons == {<<>>,
            <<" ", " ", " ", " ", " ">>,
            <<"d", "u", "l", "l">>,
            <<" ", "d", "u", "l", "l", " ">>,
            <<"v", "a", "g", "u", "e">>,
            <<" ", "v", "a", "g", "u", "e", " ", " ">>}
ReasonInputs == {<<>>} \cup {<<t>> : t \in Reasons}
FlagInputs == {<<>>, <<TRUE>>, <<FALSE>>}

\* JavaScript truthiness of a text body field (undefined and "" are falsy).
TruthyText(x) == x # <<>> /\ x[1] # <<>>

\* String.prototype.trim on text whose only whitespace is the space.
RECURSIVE TrimStart(_)
TrimStart(s) == IF s # <<>> /\ Head(s) = " " THEN TrimStart(Tail(s)) ELSE s

RECURSIVE TrimEnd(_)
TrimEnd(s) == IF s # <<>> /\ s[Len(s)] = " " THEN TrimEnd(SubSeq(s, 1, Len(s) - 1)) ELSE s

Trim(s) == TrimEnd(TrimStart(s))

VARIABLES events, bookings, created, req, wishlist, wished, accounts

vars == <<events, bookings, created, req, wishlist, wished, accounts>>

\* The wishlist collection and the number of entries ever inserted into it.
wish == <<wishlist, wished>>

\* ---------------------------------------------------------------- schema
\* models/Event.js: totalSeats { min: 1 }, availableSeats { min: 0 }.
SchemaMinOff(v, m) == TRUE

SchemaMin(v, m) == v >= m

MinTotalSeats == 1
MinAvailableSeats == 0
MinPrice == 0
MinTotalPrice == 0
MinNumberOfSeats == 1

\* The validators event.save() runs on a new document.
ValidEvent(doc) ==
    /\ SchemaMin(doc.totalSeats, MinTotalSeats)
    /\ SchemaMin(doc.availableSeats, MinAvailableSeats)
    /\ SchemaMin(doc.price, MinPrice)

\* The validators booking.save() runs on a new document.
ValidBooking(doc) ==
    /\ SchemaMin(doc.numberOfSeats, MinNumberOfSeats)
    /\ SchemaMin(doc.totalPrice, MinTotalPrice)

\* ---------------------------------------------------------------- requests
\* The paths of a loaded event document an organizer edit has modified, with
\* the values assigned (<<>>: the path is not modified).
NoPatch == [title |-> <<>>, price |-> <<>>, totalSeats |-> <<>>,
            isFeatured |-> <<>>, status |-> <<>>, adminNote |-> <<>>]

IdleReq == [op |-> "none", pc |-> "idle", caller |-> "u1", event |-> 0,
            booking |-> 0, seats |-> 0, lAvail |-> 0, lPrice |-> 0,
            lStatus |-> "none", patch |-> NoPatch,
            flipped |-> FALSE, released |-> FALSE,
            entry |-> 0, listing |-> <<>>, draft |-> <<>>,
            result |-> {}, resp |-> "none"]

\* A request refused before its handler has written anything.  The finished
\* slot keeps what the refusal is about: the caller of a Forbidden, the id a
\* NotFound looked up, the event and seat count of a Conflict.
Refuse(r, base, code) ==
    [req EXCEPT ![r] =
        [IdleReq EXCEPT !.op = base.op, !.pc = "done", !.resp = code,
            !.caller = IF code = "Forbidden" THEN base.caller ELSE IdleReq.caller,
            !.event = IF code \in {"NotFound", "Conflict"} THEN base.event ELSE 0,
            !.booking = IF code = "NotFound" THEN base.booking ELSE 0,
            !.seats = IF code = "Conflict" THEN base.seats ELSE 0]]

\* res.status(...).json(...) after the handler's database calls: the local
\* documents are dropped.  The finished slot keeps the operation, the outcome,
\* and which of a cancellation's two paired writes were applied.
Respond(r, base, code) ==
    [req EXCEPT ![r] = [IdleReq EXCEPT !.op = base.op, !.pc = "done", !.resp = code,
                                       !.flipped = base.flipped,
                                       !.released = base.released]]

\* The finished slot of a request on one event: who asked, for which event.
Answer(r, o, u, e, code) ==
    [req EXCEPT ![r] = [IdleReq EXCEPT !.op = o, !.pc = "done", !.resp = code,
                                       !.caller = u, !.event = e]]

\* seed.js lines 22-49: the three accounts the database starts with.  "null"
\* is the schema default of an optional profile field.
SeedAccounts ==
    [u \in Users |->
        [name |-> CASE u = "a1" -> "Admin User"
                    [] u = "o1" -> "Event Organizer"
                    [] OTHER    -> "Regular User",
         email |-> CASE u = "a1" -> "admin@test.com"
                     [] u = "o1" -> "organizer@test.com"
                     [] OTHER    -> "user@test.com",
         phone |-> IF u = "a1" THEN "null" ELSE "+9477",
         role |-> Role(u),
         isActive |-> TRUE]]

Init ==
    /\ events = <<>>
    /\ bookings = <<>>
    /\ created = 0
    /\ req = [r \in Reqs |-> IdleReq]
    /\ wishlist = <<>>
    /\ wished = 0
    /\ accounts = SeedAccounts

\* ---------------------------------------------------------------- POST /api/events
\* The request body of an event submission.  organizer and status are fields
\* a client may send along; the handler does not read them.
EventBodies(titles, prices, totals, organizers, statuses) ==
    [title : titles, price : prices, totalSeats : totals,
     organizer : organizers, status : statuses]

\* A document built from the body alone: owner and status as the client sent them.
NewEventFromBody(u, body) ==
    [title |-> body.title[1],
     price |-> body.price[1],
     totalSeats |-> body.totalSeats[1],
     availableSeats |-> body.totalSeats[1],
     bookings |-> <<>>,
     organizer |-> IF body.organizer = <<>> THEN u ELSE body.organizer[1],
     status |-> IF body.status = <<>> THEN "pending" ELSE body.status[1],
     adminNote |-> <<>>,
     reviewedAt |-> "unset",
     reviewedBy |-> "none",
     isFeatured |-> FALSE,
     isActive |-> TRUE]

\* new Event({...}) (lines 202-219) with the schema defaults: isFeatured
\* false, isActive true, reviewedAt and reviewedBy unset.  reviewedAt is
\* "unset" or "stamped": the instant of a review is not followed.
NewEvent(u, body) ==
    [title |-> body.title[1],
     price |-> body.price[1],
     totalSeats |-> body.totalSeats[1],
     availableSeats |-> body.totalSeats[1],
     bookings |-> <<>>,
     organizer |-> u,
     status |-> "pending",
     adminNote |-> <<>>,
     reviewedAt |-> "unset",
     reviewedBy |-> "none",
     isFeatured |-> FALSE,
     isActive |-> TRUE]

\* organizerMiddleware, the required-field check (line 189), new Event and
\* event.save() (line 221).
CreateEventWithin(r, u, body, cap) ==
    /\ req[r].pc = "idle"
    /\ LET base == [IdleReq EXCEPT !.op = "createEvent", !.caller = u]
       IN  IF ~OrganizerGate(u)
           THEN /\ req' = Refuse(r, base, "Forbidden")
                /\ UNCHANGED <<events, created>>
           ELSE IF ~TruthyText(body.title) \/ ~Truthy(body.price) \/ ~Truthy(body.totalSeats)
           THEN /\ req' = Refuse(r, base, "ValidationError")
                /\ UNCHANGED <<events, created>>
           ELSE IF ~ValidEvent(NewEvent(u, body))
           THEN /\ req' = Refuse(r, base, "Internal")
                /\ UNCHANGED <<events, created>>
           ELSE /\ created < cap
                /\ created' = created + 1
                /\ events' = (created + 1 :> NewEvent(u, body)) @@ events
                /\ req' = Answer(r, "createEvent", u, created + 1, "Created")
    /\ UNCHANGED bookings
    /\ UNCHANGED wish
    /\ UNCHANGED accounts

CreateEvent(r, u, body) == CreateEventWithin(r, u, body, MaxEvents)

\* ---------------------------------------------------------------- POST /api/bookings
\* Bookings a slot has been admitted to insert but has not inserted yet.
PendingInserts == Cardinality({q \in Reqs : req[q].op = "book" /\ req[q].pc = "saveBooking"})

\* booking.routes.js:88  if (event.availableSeats < numberOfSeats) -> 400
InsufficientSeatsOff(avail, n) == FALSE

InsufficientSeats(avail, n) == avail < n

\* The booking lookup with a moderation check added: an event that is not
\* approved is refused like one without seats.
BookFindApprovedOnly(r, u, eid, n) ==
    /\ req[r].pc = "idle"
    /\ LET base == [IdleReq EXCEPT !.op = "book", !.caller = u,
                                   !.event = IF eid = <<>> THEN 0 ELSE eid[1],
                                   !.seats = IF n = <<>> THEN 0 ELSE n[1]]
       IN  IF eid = <<>> \/ ~Truthy(n) \/ n[1] < 1
           THEN req' = Refuse(r, base, "ValidationError")
           ELSE IF eid[1] \notin DOMAIN events
           THEN req' = Refuse(r, base, "NotFound")
           ELSE IF \/ events[eid[1]].status # "approved"
                   \/ InsufficientSeats(events[eid[1]].availableSeats, n[1])
           THEN req' = Refuse(r, base, "Conflict")
           ELSE /\ Len(bookings) + PendingInserts < MaxBookings
                /\ req' = [req EXCEPT ![r] = [base EXCEPT !.pc = "saveBooking",
                                      !.lAvail = events[eid[1]].availableSeats,
                                      !.lPrice = events[eid[1]].price]]
    /\ UNCHANGED <<events, bookings, created>>
    /\ UNCHANGED wish
    /\ UNCHANGED accounts

\* Validation, Event.findById and the seat check (lines 68-103).
BookFind(r, u, eid, n) ==
    /\ req[r].pc = "idle"
    /\ LET base == [IdleReq EXCEPT !.op = "book", !.caller = u,
                                   !.event = IF eid = <<>> THEN 0 ELSE eid[1],
                                   !.seats = IF n = <<>> THEN 0 ELSE n[1]]
       IN  IF eid = <<>> \/ ~Truthy(n) \/ n[1] < 1
           THEN req' = Refuse(r, base, "ValidationError")
           ELSE IF eid[1] \notin DOMAIN events
           THEN req' = Refuse(r, base, "NotFound")
           ELSE IF InsufficientSeats(events[eid[1]].availableSeats, n[1])
           THEN req' = Refuse(r, base, "Conflict")
           ELSE /\ Len(bookings) + PendingInserts < MaxBookings
                /\ req' = [req EXCEPT ![r] = [base EXCEPT !.pc = "saveBooking",
                                      !.lAvail = events[eid[1]].availableSeats,
                                      !.lPrice = events[eid[1]].price]]
    /\ UNCHANGED <<events, bookings, created>>
    /\ UNCHANGED wish
    /\ UNCHANGED accounts

\* const totalPrice = event.price * numberOfSeats; new Booking({...})
\* (lines 96-103) from the locals of request slot q, status by schema default,
\* and the reference the pre('save') hook has drawn (part_001 lines 50-55).
NewBooking(q, ref) ==
    [user |-> q.caller,
     event |-> q.event,
     numberOfSeats |-> q.seats,
     totalPrice |-> q.lPrice * q.seats,
     status |-> "confirmed",
     bookingRef |-> ref]

\* part_001 lines 38-41, bookingRef unique: true.  The index refuses an
\* insert whose reference a stored booking has.
RefTaken(ref) == \E b \in DOMAIN bookings : bookings[b].bookingRef = ref

\* await booking.save() (line 105) with the reference ref drawn by the hook,
\* then lines 108-109 on the local event.  A refused insert is caught at
\* line 119.
BookSaveBookingWith(r, ref) ==
    /\ req[r].op = "book" /\ req[r].pc = "saveBooking"
    /\ IF ~ValidBooking(NewBooking(req[r], ref)) \/ RefTaken(ref)
       THEN /\ req' = Respond(r, req[r], "Internal")
            /\ UNCHANGED bookings
       ELSE /\ bookings' = Append(bookings, NewBooking(req[r], ref))
            /\ req' = [req EXCEPT ![r].pc = "saveEvent",
                                  ![r].booking = Len(bookings) + 1,
                                  ![r].lAvail = req[r].lAvail - req[r].seats]
    /\ UNCHANGED <<events, created>>
    /\ UNCHANGED wish
    /\ UNCHANGED accounts

\* The save when the hook draws a reference no stored booking has.
BookSaveBooking(r) == BookSaveBookingWith(r, Len(bookings) + 1)

\* event.save() of a loaded document whose availableSeats path is modified:
\* the stored document after the update, or <<>> when the save rejects.
SaveSeats(e, avail, pushed) ==
    IF e \notin DOMAIN events \/ ~SchemaMin(avail, MinAvailableSeats)
    THEN <<>>
    ELSE <<[events[e] EXCEPT !.availableSeats = avail,
                             !.bookings = @ \o pushed]>>

\* await event.save() (line 110) and the response.
BookSaveEvent(r) ==
    /\ req[r].op = "book" /\ req[r].pc = "saveEvent"
    /\ LET e == req[r].event
           saved == SaveSeats(e, req[r].lAvail, <<req[r].booking>>)
           base == req[r]
       IN  IF saved = <<>>
           THEN /\ req' = Respond(r, base, "Internal")
                /\ UNCHANGED events
           ELSE /\ events' = [events EXCEPT ![e] = saved[1]]
                /\ req' = Respond(r, base, "Created")
    /\ UNCHANGED <<bookings, created>>
    /\ UNCHANGED wish
    /\ UNCHANGED accounts

\* ---------------------------------------------------------------- PUT /api/bookings/:id/cancel
BookingIds == 1..MaxBookings

\* booking.routes.js:143  if (booking.user.toString() !== req.user.id) -> 403
MayCancelOrAdmin(u, owner) == u = owner \/ Role(u) = "admin"

MayCancel(u, owner) == u = owner

\* Booking.findById and the ownership check (lines 133-150).
CancelFind(r, u, b) ==
    /\ req[r].pc = "idle"
    /\ LET base == [IdleReq EXCEPT !.op = "cancel", !.caller = u, !.booking = b]
       IN  IF b \notin DOMAIN bookings
           THEN req' = Refuse(r, base, "NotFound")
           ELSE IF ~MayCancel(u, bookings[b].user)
           THEN req' = Refuse(r, base, "Forbidden")
           ELSE req' = [req EXCEPT ![r] = [base EXCEPT !.pc = "saveBooking",
                                 !.event = bookings[b].event,
                                 !.seats = bookings[b].numberOfSeats,
                                 !.lStatus = bookings[b].status]]
    /\ UNCHANGED <<events, bookings, created>>
    /\ UNCHANGED wish
    /\ UNCHANGED accounts

\* A cancel that toggles: a second call restores the booking.
CancelSaveBookingToggle(r) ==
    /\ req[r].op = "cancel" /\ req[r].pc = "saveBooking"
    /\ bookings' = [bookings EXCEPT ![req[r].booking].status =
                        IF req[r].lStatus = "cancelled" THEN "confirmed" ELSE "cancelled"]
    /\ req' = [req EXCEPT ![r].pc = "findEvent", ![r].flipped = TRUE]
    /\ UNCHANGED <<events, created>>
    /\ UNCHANGED wish
    /\ UNCHANGED accounts

\* booking.status = 'cancelled'; await booking.save() (lines 150-151).  The
\* update is sent only when the assignment changed the local copy.
CancelSaveBooking(r) ==
    /\ req[r].op = "cancel" /\ req[r].pc = "saveBooking"
    /\ LET modified == req[r].lStatus # "cancelled"
       IN  /\ bookings' = IF modified
                          THEN [bookings EXCEPT ![req[r].booking].status = "cancelled"]
                          ELSE bookings
           /\ req' = [req EXCEPT ![r].pc = "findEvent", ![r].flipped = modified]
    /\ UNCHANGED <<events, created>>
    /\ UNCHANGED wish
    /\ UNCHANGED accounts

\* Event.findById(booking.event) and line 155 on the result; a null result
\* makes line 155 throw, which the catch turns into a 500.
CancelFindEvent(r) ==
    /\ req[r].op = "cancel" /\ req[r].pc = "findEvent"
    /\ IF req[r].event \notin DOMAIN events
       THEN req' = Respond(r, req[r], "Internal")
       ELSE /\ events[req[r].event].availableSeats + req[r].seats <= SeatCap
            /\ req' = [req EXCEPT ![r].pc = "saveEvent",
                                  ![r].lAvail = events[req[r].event].availableSeats + req[r].seats]
    /\ UNCHANGED <<events, bookings, created>>
    /\ UNCHANGED wish
    /\ UNCHANGED accounts

\* await event.save() (line 156) and the response.
CancelSaveEvent(r) ==
    /\ req[r].op = "cancel" /\ req[r].pc = "saveEvent"
    /\ LET e == req[r].event
           saved == SaveSeats(e, req[r].lAvail, <<>>)
       IN  IF saved = <<>>
           THEN /\ req' = Respond(r, req[r], "Internal")
                /\ UNCHANGED events
           ELSE /\ events' = [events EXCEPT ![e] = saved[1]]
                /\ req' = Respond(r, [req[r] EXCEPT !.released = TRUE], "OK")
    /\ UNCHANGED <<bookings, created>>
    /\ UNCHANGED wish
    /\ UNCHANGED accounts

\* ---------------------------------------------------------------- PUT /api/events/:id
\* The request body of an edit.
EditBodies(titles, prices, totals, flags) ==
    [title : titles, price : prices, totalSeats : totals, isFeatured : flags]

\* A path is sent by save() only when the assignment changed the local copy.
Modified(old, new) == IF new = old THEN <<>> ELSE <<new>>

\* Object.assign(event, {...}) (lines 318-329) on the loaded document doc:
\* the paths it modifies.
Assign(doc, body) ==
    [title |-> Modified(doc.title, IF TruthyText(body.title) THEN body.title[1] ELSE doc.title),
     price |-> Modified(doc.price, IF body.price # <<>> THEN body.price[1] ELSE doc.price),
     totalSeats |-> Modified(doc.totalSeats,
                             IF Truthy(body.totalSeats) THEN body.totalSeats[1]
                                                        ELSE doc.totalSeats),
     isFeatured |-> Modified(doc.isFeatured,
                             IF body.isFeatured # <<>> THEN body.isFeatured[1]
                                                       ELSE doc.isFeatured),
     status |-> Modified(doc.status, "pending"),
     adminNote |-> Modified(doc.adminNote, <<>>)]

\* An ownership check that also lets an admin through.
MayEditOrAdmin(u, owner) == u = owner \/ Role(u) = "admin"

\* if (event.organizer.toString() !== req.user.id) -> 403  (line 307)
MayEdit(u, owner) == u = owner

\* organizerMiddleware, Event.findById, the ownership check and Object.assign
\* (lines 302-329).
EditFind(r, u, e, body) ==
    /\ req[r].pc = "idle"
    /\ LET base == [IdleReq EXCEPT !.op = "edit", !.caller = u, !.event = e]
       IN  IF ~OrganizerGate(u)
           THEN req' = Refuse(r, base, "Forbidden")
           ELSE IF e \notin DOMAIN events
           THEN req' = Refuse(r, base, "NotFound")
           ELSE IF ~MayEdit(u, events[e].organizer)
           THEN req' = Refuse(r, base, "Forbidden")
           ELSE req' = [req EXCEPT ![r] = [base EXCEPT !.pc = "saveEvent",
                                 !.patch = Assign(events[e], body)]]
    /\ UNCHANGED <<events, bookings, created>>
    /\ UNCHANGED wish
    /\ UNCHANGED accounts

\* The stored document after $set of the modified paths.
ApplyPatch(doc, patch) ==
    [doc EXCEPT !.title = IF patch.title = <<>> THEN @ ELSE patch.title[1],
                !.price = IF patch.price = <<>> THEN @ ELSE patch.price[1],
                !.totalSeats = IF patch.totalSeats = <<>> THEN @ ELSE patch.totalSeats[1],
                !.isFeatured = IF patch.isFeatured = <<>> THEN @ ELSE patch.isFeatured[1],
                !.status = IF patch.status = <<>> THEN @ ELSE patch.status[1],
                !.adminNote = IF patch.adminNote = <<>> THEN @ ELSE patch.adminNote[1]]

\* The validators save() runs on the modified paths.
ValidPatch(patch) ==
    /\ patch.totalSeats # <<>> => SchemaMin(patch.totalSeats[1], MinTotalSeats)
    /\ patch.price # <<>> => SchemaMin(patch.price[1], MinPrice)

\* An edit whose new price is carried over to the bookings of the event.
EditSaveRepricing(r) ==
    /\ req[r].op = "edit" /\ req[r].pc = "saveEvent"
    /\ LET e == req[r].event
           newPrice == req[r].patch.price
       IN  IF e \notin DOMAIN events \/ ~ValidPatch(req[r].patch)
           THEN /\ req' = Respond(r, req[r], "Internal")
                /\ UNCHANGED <<events, bookings>>
           ELSE /\ events' = [events EXCEPT ![e] = ApplyPatch(@, req[r].patch)]
                /\ bookings' = [b \in DOMAIN bookings |->
                                  IF bookings[b].event = e /\ newPrice # <<>>
                                  THEN [bookings[b] EXCEPT !.totalPrice =
                                            newPrice[1] * bookings[b].numberOfSeats]
                                  ELSE bookings[b]]
                /\ req' = Answer(r, "edit", req[r].caller, e, "OK")
    /\ UNCHANGED created
    /\ UNCHANGED wish
    /\ UNCHANGED accounts

\* await event.save() (line 331): $set of the modified paths, after their
\* validators; rejected when the document is gone.
EditSave(r) ==
    /\ req[r].op = "edit" /\ req[r].pc = "saveEvent"
    /\ LET e == req[r].event
       IN  IF e \notin DOMAIN events \/ ~ValidPatch(req[r].patch)
           THEN /\ req' = Respond(r, req[r], "Internal")
                /\ UNCHANGED events
           ELSE /\ events' = [events EXCEPT ![e] = ApplyPatch(@, req[r].patch)]
                /\ req' = Answer(r, "edit", req[r].caller, e, "OK")
    /\ UNCHANGED <<bookings, created>>
    /\ UNCHANGED wish
    /\ UNCHANGED accounts

\* ---------------------------------------------------------------- DELETE /api/events/:id
\* if (event.organizer.toString() !== req.user.id && req.user.role !== 'admin')
\* -> 403  (line 346)
MayDelete(u, owner) == u = owner \/ Role(u) = "admin"

\* organizerMiddleware, Event.findById and the ownership check (lines 341-348).
DeleteFind(r, u, e) ==
    /\ req[r].pc = "idle"
    /\ LET base == [IdleReq EXCEPT !.op = "delete", !.caller = u, !.event = e]
       IN  IF ~OrganizerGate(u)
           THEN req' = Refuse(r, base, "Forbidden")
           ELSE IF e \notin DOMAIN events
           THEN req' = Refuse(r, base, "NotFound")
           ELSE IF ~MayDelete(u, events[e].organizer)
           THEN req' = Refuse(r, base, "Forbidden")
           ELSE req' = [req EXCEPT ![r] = [base EXCEPT !.pc = "deleteEvent"]]
    /\ UNCHANGED <<events, bookings, created>>
    /\ UNCHANGED wish
    /\ UNCHANGED accounts

\* await Event.findByIdAndDelete(req.params.id) (line 364): bookings that
\* reference the event are left as they are.
DeleteEvent(r) ==
    /\ req[r].op = "delete" /\ req[r].pc = "deleteEvent"
    /\ events' = [x \in DOMAIN events \ {req[r].event} |-> events[x]]
    /\ req' = Respond(r, req[r], "OK")
    /\ UNCHANGED <<bookings, created>>
    /\ UNCHANGED wish
    /\ UNCHANGED accounts

\* ---------------------------------------------------------------- PATCH /api/events/:id/approve
\* if (req.user.role !== 'admin') -> 403  (lines 243, 272)
AdminOnlyOrOrganizer(u) == Role(u) = "admin" \/ Role(u) = "organizer"

AdminOnly(u) == Role(u) = "admin"

\* An approval that sets the status and the reviewer stamps but leaves the
\* admin note as it was.
ApproveKeepingNote(r, u, e) ==
    /\ req[r].pc = "idle"
    /\ IF ~AdminOnly(u)
       THEN /\ req' = Answer(r, "approve", u, e, "Forbidden")
            /\ UNCHANGED events
       ELSE IF e \notin DOMAIN events
       THEN /\ req' = Answer(r, "approve", u, e, "NotFound")
            /\ UNCHANGED events
       ELSE /\ events' = [events EXCEPT ![e].status = "approved",
                                        ![e].reviewedAt = "stamped",
                                        ![e].reviewedBy = u]
            /\ req' = Answer(r, "approve", u, e, "OK")
    /\ UNCHANGED <<bookings, created>>
    /\ UNCHANGED wish
    /\ UNCHANGED accounts

\* The admin check and Event.findByIdAndUpdate (lines 243-253): one atomic
\* update of the stored document.
Approve(r, u, e) ==
    /\ req[r].pc = "idle"
    /\ IF ~AdminOnly(u)
       THEN /\ req' = Answer(r, "approve", u, e, "Forbidden")
            /\ UNCHANGED events
       ELSE IF e \notin DOMAIN events
       THEN /\ req' = Answer(r, "approve", u, e, "NotFound")
            /\ UNCHANGED events
       ELSE /\ events' = [events EXCEPT ![e].status = "approved",
                                        ![e].adminNote = <<>>,
                                        ![e].reviewedAt = "stamped",
                                        ![e].reviewedBy = u]
            /\ req' = Answer(r, "approve", u, e, "OK")
    /\ UNCHANGED <<bookings, created>>
    /\ UNCHANGED wish
    /\ UNCHANGED accounts

\* ---------------------------------------------------------------- PATCH /api/events/:id/reject
MinReasonLength == 5

\* The length check on the reason as sent, padding included.
ReasonTooShortUntrimmed(reason) == reason = <<>> \/ reason[1] = <<>> \/ Len(reason[1]) < MinReasonLength

\* if (!reason || reason.trim().length < 5) -> 400  (line 277)
ReasonTooShort(reason) == reason = <<>> \/ reason[1] = <<>> \/ Len(Trim(reason[1])) < MinReasonLength

\* The admin check, the reason check and Event.findByIdAndUpdate
\* (lines 272-287).
Reject(r, u, e, reason) ==
    /\ req[r].pc = "idle"
    /\ IF ~AdminOnly(u)
       THEN /\ req' = Answer(r, "reject", u, e, "Forbidden")
            /\ UNCHANGED events
       ELSE IF ReasonTooShort(reason)
       THEN /\ req' = Answer(r, "reject", u, e, "ValidationError")
            /\ UNCHANGED events
       ELSE IF e \notin DOMAIN events
       THEN /\ req' = Answer(r, "reject", u, e, "NotFound")
            /\ UNCHANGED events
       ELSE /\ events' = [events EXCEPT ![e].status = "rejected",
                                        ![e].adminNote = Trim(reason[1]),
                                        ![e].reviewedAt = "stamped",
                                        ![e].reviewedBy = u]
            /\ req' = Answer(r, "reject", u, e, "OK")
    /\ UNCHANGED <<bookings, created>>
    /\ UNCHANGED wish
    /\ UNCHANGED accounts

\* Featuring that also hands the event over to the caller.
FeatureReassigning(r, u, e) ==
    /\ req[r].pc = "idle"
    /\ IF Role(u) # "admin"
       THEN /\ req' = Answer(r, "feature", u, e, "Forbidden")
            /\ UNCHANGED events
       ELSE IF e \notin DOMAIN events
       THEN /\ req' = Answer(r, "feature", u, e, "NotFound")
            /\ UNCHANGED events
       ELSE /\ events' = [events EXCEPT ![e].isFeatured = TRUE, ![e].organizer = u]
            /\ req' = Answer(r, "feature", u, e, "OK")
    /\ UNCHANGED <<bookings, created>>
    /\ UNCHANGED wish
    /\ UNCHANGED accounts

\* ---------------------------------------------------------------- PUT /api/admin/events/:id/feature
\* adminMiddleware and Event.findByIdAndUpdate (admin.routes.js lines 103-112).
Feature(r, u, e) ==
    /\ req[r].pc = "idle"
    /\ IF Role(u) # "admin"
       THEN /\ req' = Answer(r, "feature", u, e, "Forbidden")
            /\ UNCHANGED events
       ELSE IF e \notin DOMAIN events
       THEN /\ req' = Answer(r, "feature", u, e, "NotFound")
            /\ UNCHANGED events
       ELSE /\ events' = [events EXCEPT ![e].isFeatured = TRUE]
            /\ req' = Answer(r, "feature", u, e, "OK")
    /\ UNCHANGED <<bookings, created>>
    /\ UNCHANGED wish
    /\ UNCHANGED accounts

\* ---------------------------------------------------------------- public reads
\* The finished slot of a read: the ids of the events in the response.
Found(r, o, e, ids) ==
    [req EXCEPT ![r] = [IdleReq EXCEPT !.op = o, !.pc = "done", !.resp = "OK",
                                       !.event = e, !.result = ids]]

\* A filter on the active flag alone.
PublicQueryAnyStatus(doc) == doc.isActive

\* { isActive: true, status: 'approved' }  (lines 49, 81, 105-106)
PublicQuery(doc) == doc.isActive /\ doc.status = "approved"

\* GET /api/events (lines 44-70).  skip and limit select a part of the
\* matching events; the model returns all of them.
ListEvents(r) ==
    /\ req[r].pc = "idle"
    /\ req' = Found(r, "list", 0, {e \in DOMAIN events : PublicQuery(events[e])})
    /\ UNCHANGED <<events, bookings, created>>
    /\ UNCHANGED wish
    /\ UNCHANGED accounts

\* GET /api/events/featured (lines 79-84).
ListFeatured(r) ==
    /\ req[r].pc = "idle"
    /\ req' = Found(r, "featured", 0,
                    {e \in DOMAIN events : events[e].isFeatured /\ PublicQuery(events[e])})
    /\ UNCHANGED <<events, bookings, created>>
    /\ UNCHANGED wish
    /\ UNCHANGED accounts

\* The letters of the model's texts, folded to lower case.
Lower(c) == CASE c = "G" -> "g" [] c = "Y" -> "y" [] c = "M" -> "m"
              [] c = "J" -> "j" [] c = "A" -> "a" [] OTHER -> c

FoldCase(s) == [i \in 1..Len(s) |-> Lower(s[i])]

\* { $regex: q, $options: 'i' } for a q without regular-expression
\* metacharacters: q occurs in s, letter case ignored.
Matches(s, q) ==
    \E i \in 1..(Len(s) - Len(q) + 1) :
        FoldCase(SubSeq(s, i, i + Len(q) - 1)) = FoldCase(q)

Queries == {<<"j", "a">>, <<"g", "y">>, <<"A", "M">>}
QueryInputs == {<<>>, <<<<>>>>} \cup {<<q>> : q \in Queries}

\* GET /api/events/search/query (lines 93-109); of the four text fields the
\* model follows the title.
SearchEvents(r, q) ==
    /\ req[r].pc = "idle"
    /\ IF ~TruthyText(q)
       THEN req' = [req EXCEPT ![r] = [IdleReq EXCEPT !.op = "search", !.pc = "done",
                                                      !.resp = "ValidationError"]]
       ELSE req' = Found(r, "search", 0,
                         {e \in DOMAIN events : /\ Matches(events[e].title, q[1])
                                                /\ PublicQuery(events[e])})
    /\ UNCHANGED <<events, bookings, created>>
    /\ UNCHANGED wish
    /\ UNCHANGED accounts

\* GET /api/events/:id (lines 154-165): no authentication, findById alone.
GetEvent(r, e) ==
    /\ req[r].pc = "idle"
    /\ IF e \notin DOMAIN events
       THEN req' = [req EXCEPT ![r] = [IdleReq EXCEPT !.op = "get", !.pc = "done",
                                                      !.event = e, !.resp = "NotFound"]]
       ELSE req' = Found(r, "get", e, {e})
    /\ UNCHANGED <<events, bookings, created>>
    /\ UNCHANGED wish
    /\ UNCHANGED accounts

\* ---------------------------------------------------------------- authMiddleware
\* The Authorization header after split(' '): <<>> when the header is absent,
\* else its words.  The second word is the token: empty ("Bearer "), not a JWT,
\* signed with another secret, expired, or valid, and the user it names.
TokenKinds == {"empty", "malformed", "forged", "expired", "valid"}
Tokens == [kind : TokenKinds, user : Users]
Headers == {<<>>, <<"Bearer">>} \cup {<<"Bearer", t>> : t \in Tokens}

\* generateToken signs { id, role }; jwt.verify returns them for a token that
\* is well formed, carries the server's signature and has not expired, and
\* throws otherwise.
JwtVerify(t) == t.kind = "valid"
Decoded(t) == [id |-> t.user, role |-> Role(t.user)]

\* middleware/auth.js lines 3-23: 401 without a token, 403 when jwt.verify
\* throws, else next() with req.user set.
AuthMiddleware(h) ==
    IF Len(h) < 2 \/ h[2].kind = "empty" THEN "Unauthenticated"
    ELSE IF ~JwtVerify(h[2]) THEN "Forbidden"
    ELSE "next"

\* ---------------------------------------------------------------- organizer reads
\* The finished slot of a read made for a caller: who asked and the ids returned.
FoundFor(r, o, u, ids) ==
    [req EXCEPT ![r] = [IdleReq EXCEPT !.op = o, !.pc = "done", !.resp = "OK",
                                       !.caller = u, !.result = ids]]

\* GET /api/events/organizer/my-events (event.routes.js lines 141-149):
\* authMiddleware, then Event.find({ organizer: req.user.id }).
MyEvents(r, h) ==
    /\ req[r].pc = "idle"
    /\ IF AuthMiddleware(h) # "next"
       THEN req' = Answer(r, "myEvents", IdleReq.caller, 0, AuthMiddleware(h))
       ELSE LET u == Decoded(h[2]).id
            IN  req' = FoundFor(r, "myEvents", u,
                                {e \in DOMAIN events : events[e].organizer = u})
    /\ UNCHANGED <<events, bookings, created>>
    /\ UNCHANGED wish
    /\ UNCHANGED accounts

\* GET /api/bookings/organizer/event-bookings (booking.routes.js lines
\* 173-178): authMiddleware, then Event.find({ organizer: req.user.id }).
EventBookingsFindEvents(r, h) ==
    /\ req[r].pc = "idle"
    /\ IF AuthMiddleware(h) # "next"
       THEN req' = Answer(r, "eventBookings", IdleReq.caller, 0, AuthMiddleware(h))
       ELSE LET u == Decoded(h[2]).id
            IN  req' = [req EXCEPT ![r] =
                           [IdleReq EXCEPT !.op = "eventBookings", !.pc = "findBookings",
                                           !.caller = u,
                                           !.result = {e \in DOMAIN events :
                                                          events[e].organizer = u}]]
    /\ UNCHANGED <<events, bookings, created>>
    /\ UNCHANGED wish
    /\ UNCHANGED accounts

\* Booking.find({ event: { $in: eventIds } }) and the response (lines 180-190).
EventBookingsFind(r) ==
    /\ req[r].op = "eventBookings" /\ req[r].pc = "findBookings"
    /\ req' = FoundFor(r, "eventBookings", req[r].caller,
                       {b \in DOMAIN bookings : bookings[b].event \in req[r].result})
    /\ UNCHANGED <<events, bookings, created>>
    /\ UNCHANGED wish
    /\ UNCHANGED accounts

\* ---------------------------------------------------------------- GET /api/bookings/:id
\* booking.routes.js lines 30-63.  populate('event') yields null for an event
\* that is no longer stored, and booking.event.organizer then throws.
GetBooking(r, u, b) ==
    /\ req[r].pc = "idle"
    /\ LET base == [IdleReq EXCEPT !.op = "getBooking", !.caller = u, !.booking = b]
       IN  IF b \notin DOMAIN bookings
           THEN req' = Refuse(r, base, "NotFound")
           ELSE IF bookings[b].user = u
           THEN req' = [req EXCEPT ![r] = [base EXCEPT !.pc = "done", !.resp = "OK",
                                                       !.result = {b}]]
           ELSE IF bookings[b].event \notin DOMAIN events
           THEN req' = [req EXCEPT ![r] = [base EXCEPT !.pc = "done", !.resp = "Internal"]]
           ELSE IF events[bookings[b].event].organizer # u
           THEN req' = [req EXCEPT ![r] = [base EXCEPT !.pc = "done", !.resp = "Forbidden"]]
           ELSE req' = [req EXCEPT ![r] = [base EXCEPT !.pc = "done", !.resp = "OK",
                                                       !.result = {b}]]
    /\ UNCHANGED <<events, bookings, created>>
    /\ UNCHANGED wish
    /\ UNCHANGED accounts

\* ---------------------------------------------------------------- wishlist
\* Wishlist entries are stored under the ids 1, 2, ... in the order of their
\* insertion, which is also the order of their createdAt stamps.
WishIds == 1..MaxWishes

\* The finished slot of a wishlist request: the caller, the event and the
\* entry it is about.
Wished(r, o, u, e, i, code) ==
    [req EXCEPT ![r] = [IdleReq EXCEPT !.op = o, !.pc = "done", !.resp = code,
                                       !.caller = u, !.event = e, !.entry = i]]

\* The stored entries of user u for event e.
EntriesOf(u, e) == {i \in DOMAIN wishlist : wishlist[i].user = u /\ wishlist[i].event = e}

\* Entries a slot has been admitted to insert but has not inserted yet.
PendingWishes == Cardinality({q \in Reqs : req[q].op = "wishAdd" /\ req[q].pc = "saveWish"})

\* An add that answers an existing entry with an error.
WishAddFindStrict(r, u, eid) ==
    /\ req[r].pc = "idle"
    /\ IF eid = <<>>
       THEN req' = Wished(r, "wishAdd", u, 0, 0, "ValidationError")
       ELSE IF EntriesOf(u, eid[1]) # {}
       THEN req' = Wished(r, "wishAdd", u, eid[1], 0, "Conflict")
       ELSE /\ wished + PendingWishes < MaxWishes
            /\ req' = [req EXCEPT ![r] = [IdleReq EXCEPT !.op = "wishAdd", !.pc = "saveWish",
                                                         !.caller = u, !.event = eid[1]]]
    /\ UNCHANGED <<events, bookings, created>>
    /\ UNCHANGED wish
    /\ UNCHANGED accounts

\* POST /api/wishlist, lines 46-64: the eventId check, Wishlist.findOne and
\* the answer with the entry found.  The event itself is not looked up.
WishAddFind(r, u, eid) ==
    /\ req[r].pc = "idle"
    /\ IF eid = <<>>
       THEN req' = Wished(r, "wishAdd", u, 0, 0, "ValidationError")
       ELSE IF EntriesOf(u, eid[1]) # {}
       THEN req' = Wished(r, "wishAdd", u, eid[1],
                          CHOOSE i \in EntriesOf(u, eid[1]) :
                              \A j \in EntriesOf(u, eid[1]) : i <= j,
                          "OK")
       ELSE /\ wished + PendingWishes < MaxWishes
            /\ req' = [req EXCEPT ![r] = [IdleReq EXCEPT !.op = "wishAdd", !.pc = "saveWish",
                                                         !.caller = u, !.event = eid[1]]]
    /\ UNCHANGED <<events, bookings, created>>
    /\ UNCHANGED wish
    /\ UNCHANGED accounts

\* A collection without the unique index: every insert is accepted.
DuplicateKeyOff(u, e) == FALSE

\* models/Wishlist.js line 20: the unique index on (user, event) refuses a
\* second entry for a pair.
DuplicateKey(u, e) == EntriesOf(u, e) # {}

\* new Wishlist(...), await wishlistItem.save() and the answer (lines 66-76);
\* a refused insert is caught at line 77.
WishAddSave(r) ==
    /\ req[r].op = "wishAdd" /\ req[r].pc = "saveWish"
    /\ IF DuplicateKey(req[r].caller, req[r].event)
       THEN /\ req' = Wished(r, "wishAdd", req[r].caller, req[r].event, 0, "Internal")
            /\ UNCHANGED wish
       ELSE /\ wishlist' = (wished + 1 :> [user |-> req[r].caller, event |-> req[r].event])
                             @@ wishlist
            /\ wished' = wished + 1
            /\ req' = Wished(r, "wishAdd", req[r].caller, req[r].event, wished + 1, "Created")
    /\ UNCHANGED <<events, bookings, created>>
    /\ UNCHANGED accounts

\* The :id of DELETE /api/wishlist/:id names an entry, names an event, or is
\* no ObjectId at all.  No entry and event share an id.
WishParams(evs) ==
    [of : {"entry"}, n : WishIds] \cup [of : {"event"}, n : evs]
        \cup {[of |-> "malformed", n |-> 0]}

\* An ownership check that passes every caller.
OwnsEntryOff(u, owner) == TRUE

\* if (wishlistItem.user.toString() !== req.user.id) -> 403  (line 110)
OwnsEntry(u, owner) == u = owner

\* DELETE /api/wishlist/:id, lines 89-112.  Wishlist.findById finds an entry
\* of any user; for every other id it yields null whatever is stored, and
\* Wishlist.findOne({ user, event: id }) decides.  An id that is no ObjectId
\* makes that second query throw.
WishRemoveFind(r, u, id) ==
    /\ req[r].pc = "idle"
    /\ LET found == IF id.of = "entry" THEN {id.n} \cap DOMAIN wishlist
                    ELSE IF id.of = "event" THEN EntriesOf(u, id.n)
                    ELSE {}
           e == IF id.of = "event" THEN id.n ELSE 0
       IN  IF id.of = "malformed"
           THEN req' = Wished(r, "wishRemove", u, 0, 0, "Internal")
           ELSE IF found = {}
           THEN req' = Wished(r, "wishRemove", u, e, 0, "NotFound")
           ELSE LET i == CHOOSE x \in found : \A y \in found : x <= y
                IN  IF ~OwnsEntry(u, wishlist[i].user)
                    THEN req' = Wished(r, "wishRemove", u, e, i, "Forbidden")
                    ELSE req' = [req EXCEPT ![r] =
                                    [IdleReq EXCEPT !.op = "wishRemove", !.pc = "deleteWish",
                                                    !.caller = u, !.event = e, !.entry = i]]
    /\ UNCHANGED <<events, bookings, created>>
    /\ UNCHANGED wish
    /\ UNCHANGED accounts

\* await Wishlist.findByIdAndDelete(wishlistItem._id) and the answer (lines
\* 114-118); an entry that is gone by now is no error.
WishRemoveDelete(r) ==
    /\ req[r].op = "wishRemove" /\ req[r].pc = "deleteWish"
    /\ wishlist' = [x \in DOMAIN wishlist \ {req[r].entry} |-> wishlist[x]]
    /\ req' = Wished(r, "wishRemove", req[r].caller, req[r].event, req[r].entry, "OK")
    /\ UNCHANGED <<events, bookings, created, wished>>
    /\ UNCHANGED accounts

\* sort({ createdAt: -1 }): the entries of ids S, the latest first, each with
\* its event reference.
RECURSIVE NewestFirst(_)
NewestFirst(S) ==
    IF S = {} THEN <<>>
    ELSE LET m == CHOOSE x \in S : \A y \in S : y <= x
         IN  <<[id |-> m, event |-> wishlist[m].event]>> \o NewestFirst(S \ {m})

\* GET /api/wishlist, line 22: Wishlist.find({ user: req.user.id }), sorted.
WishListFind(r, u) ==
    /\ req[r].pc = "idle"
    /\ req' = [req EXCEPT ![r] =
                  [IdleReq EXCEPT !.op = "wishList", !.pc = "populate", !.caller = u,
                                  !.listing = NewestFirst({i \in DOMAIN wishlist :
                                                              wishlist[i].user = u})]]
    /\ UNCHANGED <<events, bookings, created>>
    /\ UNCHANGED wish
    /\ UNCHANGED accounts

\* A listing that keeps the items whose event is gone.
ValidItemsUnfiltered(list) == list

\* populate('event') sets event to null when no such event is stored; line 27
\* keeps the items with item.event != null.
ValidItems(list) ==
    LET populated(item) == item.event \in DOMAIN events
    IN  SelectSeq(list, populated)

\* populate('event') and the answer (lines 23-34).
WishListPopulate(r) ==
    /\ req[r].op = "wishList" /\ req[r].pc = "populate"
    /\ req' = [req EXCEPT ![r] =
                  [IdleReq EXCEPT !.op = "wishList", !.pc = "done", !.resp = "OK",
                                  !.caller = req[r].caller,
                                  !.listing = ValidItems(req[r].listing)]]
    /\ UNCHANGED <<events, bookings, created>>
    /\ UNCHANGED wish
    /\ UNCHANGED accounts

\* ---------------------------------------------------------------- accounts
\* The ids given to the accounts that register, in the order of registration.
NewIds == <<"x1", "x2", "x3", "x4">>
Registered == Cardinality(DOMAIN accounts \ Users)

\* Registrations a slot has been admitted to insert but has not inserted yet.
PendingAccounts == Cardinality({q \in Reqs : req[q].op = "register" /\ req[q].pc = "saveUser"})

\* The finished slot of an account request: the account it acted for or on.
Account(r, o, u, code) ==
    [req EXCEPT ![r] = [IdleReq EXCEPT !.op = o, !.pc = "done", !.resp = code, !.caller = u]]

\* The stored accounts with the given email.
WithEmail(email) == {u \in DOMAIN accounts : accounts[u].email = email}

\* The request body of a registration.
RegisterBodies(names, emails, passwords, roles) ==
    [name : names, email : emails, password : passwords, role : roles]

\* models/User.js: role enum ['user', 'organizer', 'admin'].
RoleEnum == {"user", "organizer", "admin"}

\* POST /api/auth/register, part_000 lines 18-48: the required-field check,
\* User.findOne({ email }) and new User with role: role || 'user'.
RegisterFind(r, body) ==
    /\ req[r].pc = "idle"
    /\ IF body.name = <<>> \/ body.email = <<>> \/ body.password = <<>>
       THEN req' = Account(r, "register", IdleReq.caller, "ValidationError")
       ELSE IF WithEmail(body.email[1]) # {}
       THEN req' = Account(r, "register", IdleReq.caller, "Conflict")
       ELSE /\ Registered + PendingAccounts < MaxRegistered
            /\ req' = [req EXCEPT ![r] =
                          [IdleReq EXCEPT !.op = "register", !.pc = "saveUser",
                              !.draft = <<[name |-> body.name[1],
                                           email |-> body.email[1],
                                           phone |-> "null",
                                           role |-> IF body.role = <<>> THEN "user"
                                                    ELSE body.role[1],
                                           isActive |-> TRUE]>>]]
    /\ UNCHANGED <<events, bookings, created>>
    /\ UNCHANGED wish
    /\ UNCHANGED accounts

\* await user.save() and the answer (lines 50-72): the role must be of the
\* enum and the email index is unique; a refused insert is caught at line 65.
RegisterSave(r) ==
    /\ req[r].op = "register" /\ req[r].pc = "saveUser"
    /\ LET doc == req[r].draft[1]
           id == NewIds[Registered + 1]
       IN  IF doc.role \notin RoleEnum \/ WithEmail(doc.email) # {}
           THEN /\ req' = Account(r, "register", IdleReq.caller, "Internal")
                /\ UNCHANGED accounts
           ELSE /\ accounts' = (id :> doc) @@ accounts
                /\ req' = Account(r, "register", id, "Created")
    /\ UNCHANGED <<events, bookings, created>>
    /\ UNCHANGED wish

\* POST /api/auth/login (lines 76-120): User.findOne({ email }), then
\* bcrypt.compare; nothing is written.
Login(r, email, passwordMatches) ==
    /\ req[r].pc = "idle"
    /\ IF email = <<>>
       THEN req' = Account(r, "login", IdleReq.caller, "ValidationError")
       ELSE IF WithEmail(email[1]) = {} \/ ~passwordMatches
       THEN req' = Account(r, "login", IdleReq.caller, "Unauthenticated")
       ELSE req' = Account(r, "login", CHOOSE u \in WithEmail(email[1]) : TRUE, "OK")
    /\ UNCHANGED <<events, bookings, created>>
    /\ UNCHANGED wish
    /\ UNCHANGED accounts

\* The request body of a profile update; role and isActive are fields a
\* client may send along.
ProfileBodies(names, phones, roles, flags) ==
    [name : names, phone : phones, role : roles, isActive : flags]

\* What findByIdAndUpdate stores for a key of the update: the value sent, and
\* for a key that is undefined either nothing (the stored value stays) or
\* null, depending on the Mongoose release.
Updated(old, sent) == IF sent = <<>> THEN {old, "null"} ELSE {sent[1]}

\* A profile update that passes the whole body to the update.
UpdateProfileFromBody(r, u, body) ==
    /\ req[r].pc = "idle"
    /\ u \in DOMAIN accounts
    /\ \E n \in Updated(accounts[u].name, body.name),
          p \in Updated(accounts[u].phone, body.phone) :
            accounts' = [accounts EXCEPT ![u].name = n, ![u].phone = p,
                                         ![u].role = IF body.role = <<>> THEN @
                                                     ELSE body.role[1]]
    /\ req' = Account(r, "profile", u, "OK")
    /\ UNCHANGED <<events, bookings, created>>
    /\ UNCHANGED wish

\* PUT /api/auth/profile (lines 157-170): User.findByIdAndUpdate(req.user.id,
\* { name, phone, bio, profileImage }).
UpdateProfile(r, u, body) ==
    /\ req[r].pc = "idle"
    /\ u \in DOMAIN accounts
    /\ \E n \in Updated(accounts[u].name, body.name),
          p \in Updated(accounts[u].phone, body.phone) :
            accounts' = [accounts EXCEPT ![u].name = n, ![u].phone = p]
    /\ req' = Account(r, "profile", u, "OK")
    /\ UNCHANGED <<events, bookings, created>>
    /\ UNCHANGED wish

\* POST /api/auth/logout (lines 181-186): the answer alone.
Logout(r, u) ==
    /\ req[r].pc = "idle"
    /\ u \in DOMAIN accounts
    /\ req' = Account(r, "logout", u, "OK")
    /\ UNCHANGED <<events, bookings, created>>
    /\ UNCHANGED wish
    /\ UNCHANGED accounts

\* A deactivation that deletes the account.
DeactivateHard(r, u, target) ==
    /\ req[r].pc = "idle"
    /\ IF ~AdminOnly(u)
       THEN /\ req' = Account(r, "deactivate", u, "Forbidden")
            /\ UNCHANGED accounts
       ELSE IF target \notin DOMAIN accounts
       THEN /\ req' = Account(r, "deactivate", u, "NotFound")
            /\ UNCHANGED accounts
       ELSE /\ accounts' = [x \in DOMAIN accounts \ {target} |-> accounts[x]]
            /\ req' = Account(r, "deactivate", u, "OK")
    /\ UNCHANGED <<events, bookings, created>>
    /\ UNCHANGED wish

\* PUT /api/admin/users/:id/deactivate (admin.routes.js lines 77-92):
\* adminMiddleware, then User.findByIdAndUpdate(id, { isActive: false }).
Deactivate(r, u, target) ==
    /\ req[r].pc = "idle"
    /\ IF ~AdminOnly(u)
       THEN /\ req' = Account(r, "deactivate", u, "Forbidden")
            /\ UNCHANGED accounts
       ELSE IF target \notin DOMAIN accounts
       THEN /\ req' = Account(r, "deactivate", u, "NotFound")
            /\ UNCHANGED accounts
       ELSE /\ accounts' = [accounts EXCEPT ![target].isActive = FALSE]
            /\ req' = Account(r, "deactivate", u, "OK")
    /\ UNCHANGED <<events, bookings, created>>
    /\ UNCHANGED wish

\* The client reads the response; the slot serves the next request.
Reset(r) ==
    /\ req[r].pc = "done"
    /\ req' = [req EXCEPT ![r] = IdleReq]
    /\ UNCHANGED <<events, bookings, created>>
    /\ UNCHANGED wish
    /\ UNCHANGED accounts

\* Submissions and edits that vary the capacity alone.
SeatBodies == EventBodies({<<<<"j", "a", "m">>>>}, {<<1>>}, SeatInputs, {<<>>}, {<<>>})
SeatEdits == EditBodies({<<>>}, {<<>>}, SeatInputs, {<<>>})

Next ==
    \/ \E r \in Reqs, u \in Submitters, t \in SeatBodies : CreateEvent(r, u, t)
    \/ \E r \in Reqs, u \in Bookers, e \in EventIdInputs, n \in SeatInputs : BookFind(r, u, e, n)
    \/ \E r \in Reqs : BookSaveBooking(r)
    \/ \E r \in Reqs : BookSaveEvent(r)
    \/ \E r \in Reqs, u \in Users, b \in BookingIds : CancelFind(r, u, b)
    \/ \E r \in Reqs : CancelSaveBooking(r)
    \/ \E r \in Reqs : CancelFindEvent(r)
    \/ \E r \in Reqs : CancelSaveEvent(r)
    \/ \E r \in Reqs, u \in Users, e \in EventIds, t \in SeatEdits : EditFind(r, u, e, t)
    \/ \E r \in Reqs : EditSave(r)
    \/ \E r \in Reqs, u \in Users, e \in EventIds : DeleteFind(r, u, e)
    \/ \E r \in Reqs : DeleteEvent(r)
    \/ \E r \in Reqs : Reset(r)

Spec == Init /\ [][Next]_vars

\* Event creation and booking creation only: the reservations compete for
\* the seats an event was created with, and nothing releases or resizes them.
NextReserve ==
    \/ \E r \in Reqs, u \in Submitters, t \in SeatBodies : CreateEvent(r, u, t)
    \/ \E r \in Reqs, u \in Bookers, e \in EventIdInputs, n \in SeatInputs : BookFind(r, u, e, n)
    \/ \E r \in Reqs : BookSaveBooking(r)
    \/ \E r \in Reqs : BookSaveEvent(r)
    \/ \E r \in Reqs : Reset(r)

SpecReserve == Init /\ [][NextReserve]_vars

\* Event creation, booking creation and cancellation only: the seat ledger
\* without organizer edits and event deletion.
NextLedger ==
    \/ \E r \in Reqs, u \in Submitters, t \in SeatBodies : CreateEvent(r, u, t)
    \/ \E r \in Reqs, u \in Bookers, e \in EventIdInputs, n \in SeatInputs : BookFind(r, u, e, n)
    \/ \E r \in Reqs : BookSaveBooking(r)
    \/ \E r \in Reqs : BookSaveEvent(r)
    \/ \E r \in Reqs, u \in Users, b \in BookingIds : CancelFind(r, u, b)
    \/ \E r \in Reqs : CancelSaveBooking(r)
    \/ \E r \in Reqs : CancelFindEvent(r)
    \/ \E r \in Reqs : CancelSaveEvent(r)
    \/ \E r \in Reqs : Reset(r)

SpecLedger == Init /\ [][NextLedger]_vars

\* Submissions and edits that vary the price alone, for an event of MaxSeats
\* seats.
PriceBodies == EventBodies({<<<<"j", "a", "m">>>>}, PriceInputs, {<<MaxSeats>>}, {<<>>}, {<<>>})
PriceEdits == EditBodies({<<>>}, PriceInputs, {<<>>}, {<<>>})

\* The seat ledger with priced events: the organizer submits an event and
\* edits its price while one user books and cancels.
NextPricing ==
    \/ \E r \in Reqs, t \in PriceBodies : CreateEvent(r, "o1", t)
    \/ \E r \in Reqs, e \in EventIds, n \in 1..MaxSeats : BookFind(r, "u1", <<e>>, <<n>>)
    \/ \E r \in Reqs : BookSaveBooking(r)
    \/ \E r \in Reqs : BookSaveEvent(r)
    \/ \E r \in Reqs, b \in BookingIds : CancelFind(r, "u1", b)
    \/ \E r \in Reqs : CancelSaveBooking(r)
    \/ \E r \in Reqs : CancelFindEvent(r)
    \/ \E r \in Reqs : CancelSaveEvent(r)
    \/ \E r \in Reqs, e \in EventIds, t \in PriceEdits : EditFind(r, "o1", e, t)
    \/ \E r \in Reqs : EditSave(r)
    \/ \E r \in Reqs : Reset(r)

SpecPricing == Init /\ [][NextPricing]_vars

\* Submissions that vary the title and what the client claims about owner and
\* status; edits that vary the title and the featured flag.
ModerationBodies == EventBodies(TitleInputs, {<<1>>}, {<<>>, <<1>>, <<MaxSeats>>},
                                {<<>>, <<"u1">>}, {<<>>, <<"approved">>})
ModerationEdits == EditBodies(TitleInputs, {<<>>}, {<<>>}, FlagInputs)

\* The moderation workflow: submission, review, organizer edits, featuring,
\* deletion, and the public reads.
NextModeration ==
    \/ \E r \in Reqs, u \in Users, t \in ModerationBodies : CreateEvent(r, u, t)
    \/ \E r \in Reqs, u \in Users, e \in EventIds : Approve(r, u, e)
    \/ \E r \in Reqs, u \in Users, e \in EventIds, t \in ReasonInputs : Reject(r, u, e, t)
    \/ \E r \in Reqs, u \in Users, e \in EventIds : Feature(r, u, e)
    \/ \E r \in Reqs, u \in Users, e \in EventIds, t \in ModerationEdits : EditFind(r, u, e, t)
    \/ \E r \in Reqs : EditSave(r)
    \/ \E r \in Reqs, u \in Users, e \in EventIds : DeleteFind(r, u, e)
    \/ \E r \in Reqs : DeleteEvent(r)
    \/ \E r \in Reqs : ListEvents(r)
    \/ \E r \in Reqs : ListFeatured(r)
    \/ \E r \in Reqs, q \in QueryInputs : SearchEvents(r, q)
    \/ \E r \in Reqs, e \in EventIds : GetEvent(r, e)
    \/ \E r \in Reqs : Reset(r)

SpecModeration == Init /\ [][NextModeration]_vars

\* Submissions with and without a title.
AccessBodies == EventBodies({<<>>, <<<<"j", "a", "m">>>>}, {<<1>>}, {<<MaxSeats>>},
                            {<<>>}, {<<>>})

\* Who may do and see what: submissions and deletions by every role, bookings
\* of one seat, and the reads of events and bookings made with every kind of
\* Authorization header.
NextAccess ==
    \/ \E r \in Reqs, u \in Users, t \in AccessBodies : CreateEvent(r, u, t)
    \/ \E r \in Reqs, u \in Bookers, e \in EventIds : BookFind(r, u, <<e>>, <<1>>)
    \/ \E r \in Reqs : BookSaveBooking(r)
    \/ \E r \in Reqs : BookSaveEvent(r)
    \/ \E r \in Reqs, h \in Headers : MyEvents(r, h)
    \/ \E r \in Reqs, h \in Headers : EventBookingsFindEvents(r, h)
    \/ \E r \in Reqs : EventBookingsFind(r)
    \/ \E r \in Reqs, u \in Users, b \in BookingIds : GetBooking(r, u, b)
    \/ \E r \in Reqs, u \in Users, e \in EventIds : DeleteFind(r, u, e)
    \/ \E r \in Reqs : DeleteEvent(r)
    \/ \E r \in Reqs : Reset(r)

SpecAccess == Init /\ [][NextAccess]_vars

\* The wishlist is followed over one event more than the other workflows, so
\* that a user can hold entries for two stored events.
MaxWishEvents == MaxEvents + 1
WishEventIds == 1..MaxWishEvents
WishEventInputs == {<<>>} \cup {<<e>> : e \in WishEventIds}
WishUsers == {"u1", "o1"}
WishBodies == EventBodies({<<<<"j", "a", "m">>>>}, {<<1>>}, {<<1>>}, {<<>>}, {<<>>})

\* The wishlist: the organizer submits and deletes events, a user and the
\* organizer add, remove and list entries.
NextWishlist ==
    \/ \E r \in Reqs, t \in WishBodies : CreateEventWithin(r, "o1", t, MaxWishEvents)
    \/ \E r \in Reqs, e \in WishEventIds : DeleteFind(r, "o1", e)
    \/ \E r \in Reqs : DeleteEvent(r)
    \/ \E r \in Reqs, u \in WishUsers, e \in WishEventInputs : WishAddFind(r, u, e)
    \/ \E r \in Reqs : WishAddSave(r)
    \/ \E r \in Reqs, u \in WishUsers, id \in WishParams(WishEventIds) : WishRemoveFind(r, u, id)
    \/ \E r \in Reqs : WishRemoveDelete(r)
    \/ \E r \in Reqs, u \in WishUsers : WishListFind(r, u)
    \/ \E r \in Reqs : WishListPopulate(r)
    \/ \E r \in Reqs : Reset(r)

SpecWishlist == Init /\ [][NextWishlist]_vars

\* The references the pre('save') hook can draw: few enough that two
\* bookings can draw the same one.
Refs == 1..MaxRefs
RefBodies == EventBodies({<<<<"j", "a", "m">>>>}, {<<1>>}, {<<MaxSeats>>}, {<<>>}, {<<>>})

\* Bookings and cancellations whose references are drawn from Refs.
NextRefs ==
    \/ \E r \in Reqs, t \in RefBodies : CreateEvent(r, "o1", t)
    \/ \E r \in Reqs, u \in Bookers, e \in EventIds : BookFind(r, u, <<e>>, <<1>>)
    \/ \E r \in Reqs, ref \in Refs : BookSaveBookingWith(r, ref)
    \/ \E r \in Reqs : BookSaveEvent(r)
    \/ \E r \in Reqs, b \in BookingIds : CancelFind(r, "u1", b)
    \/ \E r \in Reqs : CancelSaveBooking(r)
    \/ \E r \in Reqs : CancelFindEvent(r)
    \/ \E r \in Reqs : CancelSaveEvent(r)
    \/ \E r \in Reqs : Reset(r)

SpecRefs == Init /\ [][NextRefs]_vars

\* Registrations under a new and under a taken email, with and without a
\* password, with the roles a client may ask for; profile updates that send
\* a role and an active flag along.
AccountBodies == RegisterBodies({<<"New User">>}, {<<"user@test.com">>, <<"new@test.com">>},
                                {<<>>, <<"secret">>},
                                {<<>>, <<"admin">>, <<"root">>})
AccountEmails == {<<>>, <<"user@test.com">>, <<"new@test.com">>}
AccountUpdates == ProfileBodies({<<>>, <<"Renamed">>}, {<<>>}, {<<>>, <<"admin">>},
                                {<<>>, <<TRUE>>})
AccountHolders == {"u1", "x1"}
AccountIds == {"u1", "x1", "x9"}
AccountEvents == EventBodies({<<<<"j", "a", "m">>>>}, {<<1>>}, {<<1>>}, {<<>>}, {<<>>})

\* The accounts: registration, login, profile update, logout and the admin's
\* deactivation, next to an event, a booking and a wishlist entry that a
\* deactivation could touch.
NextAccounts ==
    \/ \E r \in Reqs, t \in AccountBodies : RegisterFind(r, t)
    \/ \E r \in Reqs : RegisterSave(r)
    \/ \E r \in Reqs, e \in AccountEmails, ok \in BOOLEAN : Login(r, e, ok)
    \/ \E r \in Reqs, u \in AccountHolders, t \in AccountUpdates : UpdateProfile(r, u, t)
    \/ \E r \in Reqs, u \in AccountHolders : Logout(r, u)
    \/ \E r \in Reqs, u \in Users, t \in AccountIds : Deactivate(r, u, t)
    \/ \E r \in Reqs, t \in AccountEvents : CreateEvent(r, "o1", t)
    \/ \E r \in Reqs, e \in EventIds : BookFind(r, "u1", <<e>>, <<1>>)
    \/ \E r \in Reqs : BookSaveBooking(r)
    \/ \E r \in Reqs : BookSaveEvent(r)
    \/ \E r \in Reqs, e \in EventIds : WishAddFind(r, "u1", <<e>>)
    \/ \E r \in Reqs : WishAddSave(r)
    \/ \E r \in Reqs : Reset(r)

SpecAccounts == Init /\ [][NextAccounts]_vars

\* No request of operation o is between two of its database calls.
NoneInFlight(o) == \A q \in Reqs : req[q].op = o => req[q].pc = "done"

\* A booking request that arrives when no other booking request is running.
BookFindAlone(r, u, eid, n) == NoneInFlight("book") /\ BookFind(r, u, eid, n)

\* A cancellation that arrives when no other cancellation is running, for a
\* booking whose creation has been answered.
CancelFindAlone(r, u, b) ==
    /\ NoneInFlight("cancel")
    /\ \A q \in Reqs : (req[q].op = "book" /\ req[q].pc = "saveEvent") => req[q].booking # b
    /\ CancelFind(r, u, b)

\* One booking request and one cancellation at a time: the only requests that
\* can overlap are a booking creation and the cancellation of another booking.
NextBookCancel ==
    \/ \E r \in Reqs, t \in RefBodies : CreateEvent(r, "o1", t)
    \/ \E r \in Reqs, e \in EventIds, n \in 1..MaxSeats : BookFindAlone(r, "u1", <<e>>, <<n>>)
    \/ \E r \in Reqs : BookSaveBooking(r)
    \/ \E r \in Reqs : BookSaveEvent(r)
    \/ \E r \in Reqs, b \in BookingIds : CancelFindAlone(r, "u1", b)
    \/ \E r \in Reqs : CancelSaveBooking(r)
    \/ \E r \in Reqs : CancelFindEvent(r)
    \/ \E r \in Reqs : CancelSaveEvent(r)
    \/ \E r \in Reqs : Reset(r)

SpecBookCancel == Init /\ [][NextBookCancel]_vars

\* No slot holds a booking request, running or answered.
NoBookingSlot == \A q \in Reqs : req[q].op # "book"

\* A review decision taken while no slot holds a booking request.
ApproveUnbooked(r, u, e) == NoBookingSlot /\ Approve(r, u, e)

RejectUnbooked(r, u, e, reason) == NoBookingSlot /\ Reject(r, u, e, reason)

\* Bookings, one at a time, of events in every review state.
NextBookReviewed ==
    \/ \E r \in Reqs, t \in RefBodies : CreateEvent(r, "o1", t)
    \/ \E r \in Reqs, e \in EventIds : ApproveUnbooked(r, "a1", e)
    \/ \E r \in Reqs, e \in EventIds : RejectUnbooked(r, "a1", e, <<<<"v", "a", "g", "u", "e">>>>)
    \/ \E r \in Reqs, e \in EventIds, n \in 1..(MaxSeats + 1) :
          BookFindAlone(r, "u1", <<e>>, <<n>>)
    \/ \E r \in Reqs : BookSaveBooking(r)
    \/ \E r \in Reqs : BookSaveEvent(r)
    \/ \E r \in Reqs : Reset(r)

SpecBookReviewed == Init /\ [][NextBookReviewed]_vars

\* ================================================================ properties
\* No request is between two of its database calls.
Quiescent == \A r \in Reqs : req[r].pc \in {"idle", "done"}

RECURSIVE ActiveSeatsUpTo(_, _)
ActiveSeatsUpTo(e, k) ==
    IF k = 0 THEN 0
    ELSE ActiveSeatsUpTo(e, k - 1)
         + (IF bookings[k].event = e /\ bookings[k].status # "cancelled"
            THEN bookings[k].numberOfSeats ELSE 0)

\* Seats of the bookings on event e whose status is not cancelled.
ActiveSeats(e) == ActiveSeatsUpTo(e, Len(bookings))

RECURSIVE SeatsOf(_)
SeatsOf(ids) ==
    IF ids = <<>> THEN 0
    ELSE bookings[Head(ids)].numberOfSeats + SeatsOf(Tail(ids))

\* C1: for every event, availableSeats plus the seats of its non-cancelled
\* bookings equals totalSeats.  Stated for the states in which no request is
\* between its two writes, where the code violates it all the same.
SeatInvariant ==
    Quiescent =>
        \A e \in DOMAIN events :
            events[e].availableSeats + ActiveSeats(e) = events[e].totalSeats

\* C2: the booking requests that succeeded against an event (those whose
\* booking the event lists) hold together at most the seats the event was
\* created with, in every interleaving of concurrent requests.
NoOverbooking ==
    \A e \in DOMAIN events : SeatsOf(events[e].bookings) <= events[e].totalSeats

\* C3: a cancel request that found its booking already cancelled succeeds and
\* changes neither the booking nor the event's seat counters.
CancelIsIdempotent ==
    [][\A r \in Reqs :
          (req[r].op = "cancel" /\ req[r].lStatus = "cancelled" /\ req'[r] # req[r])
          => /\ events' = events
             /\ bookings' = bookings
             /\ req'[r].pc = "done" => req'[r].resp = "OK"]_vars

\* C4: when a create request fails after it has persisted its booking, the
\* booking is rolled back: it is not left stored as a non-cancelled booking.
CreateRollsBack ==
    [][\A r \in Reqs :
          (req[r].op = "book" /\ req[r].pc = "saveEvent"
              /\ req'[r].pc = "done" /\ req'[r].resp # "Created")
          => ~(req[r].booking \in DOMAIN bookings'
               /\ bookings'[req[r].booking].status # "cancelled")]_vars

\* C5: a cancel request that has completed, with success or with an error,
\* applied the status flip and the seat release together or not at all.
CancelWritesPaired ==
    \A r \in Reqs :
        (req[r].op = "cancel" /\ req[r].pc = "done")
        => (req[r].flipped <=> req[r].released)

\* C6: the stored availableSeats of an event is never negative.
SeatsNeverNegative ==
    \A e \in DOMAIN events : events[e].availableSeats >= 0

\* C6 witness: a booking request succeeded and took an event's last seat.
SoldOutAfterBooking ==
    \E e \in DOMAIN events, r \in Reqs :
        /\ events[e].availableSeats = 0
        /\ events[e].bookings # <<>>
        /\ req[r].op = "book" /\ req[r].resp = "Created"

\* C7: in every reachable state an event's availableSeats does not exceed its
\* totalSeats.
SeatsWithinTotal ==
    \A e \in DOMAIN events : events[e].availableSeats <= events[e].totalSeats

\* The event lists booking b: the update that deducted b's seats was applied.
Deducted(b) ==
    \E e \in DOMAIN events : \E i \in 1..Len(events[e].bookings) : events[e].bookings[i] = b

\* C8: once a booking is cancelled it stays stored and cancelled in every
\* later step, and no step applies a seat deduction for it again.
CancelledIsTerminal ==
    [][\A b \in DOMAIN bookings :
          bookings[b].status = "cancelled"
          => /\ b \in DOMAIN bookings'
             /\ bookings'[b].status = "cancelled"
             /\ Deducted(b)
                => ~\E r \in Reqs : /\ req[r].op = "book" /\ req[r].booking = b
                                    /\ req[r].pc = "saveEvent"
                                    /\ req'[r].resp = "Created"]_vars

\* C8 witness: a cancel request on an already cancelled booking has completed
\* and the booking is still cancelled.
CancelledAgain ==
    \E r \in Reqs, b \in DOMAIN bookings :
        /\ bookings[b].status = "cancelled"
        /\ req[r].op = "cancel" /\ req[r].resp = "OK" /\ ~req[r].flipped

\* C9: a booking request with eventId missing, or numberOfSeats missing or
\* below 1, is answered ValidationError; one for an event that does not exist
\* NotFound; one for more seats than the event has available Conflict; and a
\* request answered so has created no booking and changed no event.
CreateFailuresChangeNothing ==
    [][\A r \in Reqs : (req[r].pc = "idle" /\ req'[r].op = "book") =>
        \A u \in Bookers, eid \in EventIdInputs, n \in SeatInputs :
          BookFind(r, u, eid, n)
          => LET invalid == eid = <<>> \/ n = <<>> \/ n[1] < 1
                 absent == ~invalid /\ eid[1] \notin DOMAIN events
                 short == ~invalid /\ ~absent /\ events[eid[1]].availableSeats < n[1]
             IN  /\ invalid => req'[r].resp = "ValidationError"
                 /\ absent => req'[r].resp = "NotFound"
                 /\ short => req'[r].resp = "Conflict"
                 /\ (invalid \/ absent \/ short)
                    => /\ req'[r].pc = "done"
                       /\ bookings' = bookings
                       /\ events' = events]_vars

\* C9 witness: a request for more seats than its event has left was refused
\* with Conflict while the event and the earlier booking stand.
ConflictRefused ==
    \E r \in Reqs :
        /\ req[r].op = "book" /\ req[r].resp = "Conflict"
        /\ req[r].event \in DOMAIN events
        /\ events[req[r].event].availableSeats < req[r].seats
        /\ Len(bookings) > 0

\* C10: a cancel request for a booking that does not exist is answered
\* NotFound, one by a caller who is not the booking's owner (whatever the
\* caller's role) Forbidden, and neither changes a booking or an event.
CancelFailuresChangeNothing ==
    [][\A r \in Reqs : (req[r].pc = "idle" /\ req'[r].op = "cancel") =>
        \A u \in Users, b \in BookingIds :
          CancelFind(r, u, b)
          => LET absent == b \notin DOMAIN bookings
                 foreign == ~absent /\ bookings[b].user # u
             IN  /\ absent => req'[r].resp = "NotFound"
                 /\ foreign => req'[r].resp = "Forbidden"
                 /\ (absent \/ foreign)
                    => /\ req'[r].pc = "done"
                       /\ bookings' = bookings
                       /\ events' = events]_vars

\* C10 witness: the admin, who owns no booking, was refused the cancellation
\* of a confirmed booking.
AdminRefused ==
    \E r \in Reqs, b \in DOMAIN bookings :
        /\ req[r].op = "cancel" /\ req[r].resp = "Forbidden" /\ req[r].caller = "a1"
        /\ bookings[b].status = "confirmed"

\* C11: a booking request for n seats on event e that succeeds stores one new
\* booking, confirmed, owned by the caller, with totalPrice = e.price * n, and
\* its seat update lowers e.availableSeats by exactly n; no other booking and
\* no other event changes in either step.
BookingEffect ==
    [][\A r \in Reqs :
          LET e == req[r].event
              n == req[r].seats
          IN  /\ (req[r].op = "book" /\ req[r].pc = "saveBooking" /\ req'[r].pc = "saveEvent")
                 => /\ bookings' = Append(bookings, [user |-> req[r].caller,
                                                     event |-> e,
                                                     numberOfSeats |-> n,
                                                     totalPrice |-> events[e].price * n,
                                                     status |-> "confirmed",
                                                     bookingRef |-> Len(bookings) + 1])
                    /\ events' = events
              /\ (req[r].op = "book" /\ req[r].pc = "saveEvent" /\ req'[r].resp = "Created")
                 => /\ events'[e].availableSeats = events[e].availableSeats - n
                    /\ events'[e].totalSeats = events[e].totalSeats
                    /\ \A x \in DOMAIN events \ {e} : events'[x] = events[x]
                    /\ bookings' = bookings]_vars

\* C12: a booking is stored with totalPrice = the event's price, as its
\* request read it, times numberOfSeats, and no later step (an edit of the
\* event's price and a cancellation included) changes the totalPrice or the
\* numberOfSeats of a stored booking.
TotalPriceIsSnapshot ==
    [][/\ \A r \in Reqs :
            /\ (req[r].pc = "idle" /\ req'[r].op = "book" /\ req'[r].pc = "saveBooking")
               => req'[r].lPrice = events[req'[r].event].price
            /\ (req[r].op = "book" /\ req[r].pc = "saveBooking" /\ req'[r].pc = "saveEvent")
               => bookings'[req'[r].booking].totalPrice = req[r].lPrice * req[r].seats
       /\ \A b \in DOMAIN bookings :
            /\ b \in DOMAIN bookings'
            /\ bookings'[b].totalPrice = bookings[b].totalPrice
            /\ bookings'[b].numberOfSeats = bookings[b].numberOfSeats]_vars

\* C12 witness: the organizer changed the price after a booking was made and
\* the booking was cancelled; its totalPrice is still the old price's.
OldPriceKept ==
    \E b \in DOMAIN bookings, r \in Reqs :
        /\ req[r].op = "edit" /\ req[r].resp = "OK"
        /\ bookings[b].status = "cancelled"
        /\ bookings[b].event \in DOMAIN events
        /\ bookings[b].totalPrice > 0
        /\ bookings[b].totalPrice # events[bookings[b].event].price * bookings[b].numberOfSeats

\* C13: once a booking has been stored for an event, no step changes that
\* event's totalSeats.
TotalSeatsFrozenOnceBooked ==
    [][\A e \in DOMAIN events :
          ((\E b \in DOMAIN bookings : bookings[b].event = e) /\ e \in DOMAIN events')
          => events'[e].totalSeats = events[e].totalSeats]_vars

\* C14: a submission that succeeds stores a new event with status pending,
\* an empty admin note, availableSeats equal to totalSeats, and the caller of
\* the request (the identity of the token) as organizer, whatever owner or
\* status the body names.
CreatedPending ==
    [][\A r \in Reqs :
          (req[r].pc = "idle" /\ req'[r].op = "createEvent" /\ req'[r].resp = "Created")
          => LET e == req'[r].event
             IN  /\ e \notin DOMAIN events
                 /\ e \in DOMAIN events'
                 /\ events'[e].status = "pending"
                 /\ events'[e].adminNote = <<>>
                 /\ events'[e].availableSeats = events'[e].totalSeats
                 /\ events'[e].organizer = req'[r].caller
                 /\ \A u \in Users, body \in ModerationBodies :
                        CreateEvent(r, u, body)
                        => /\ events'[e].organizer = u
                           /\ events'[e].totalSeats = body.totalSeats[1]]_vars

\* C14 witness: the admin has submitted an event of MaxSeats seats; it is
\* stored pending, all seats available, owned by the admin.
SubmittedPending ==
    \E r \in Reqs :
        /\ req[r].op = "createEvent" /\ req[r].resp = "Created" /\ req[r].caller = "a1"
        /\ req[r].event \in DOMAIN events
        /\ events[req[r].event].status = "pending"
        /\ events[req[r].event].organizer = "a1"
        /\ events[req[r].event].availableSeats = MaxSeats

\* C15: an approve request that succeeds, whatever the status of the event
\* before it (pending, rejected with a note, or approved), leaves the event
\* approved with an empty admin note, reviewedAt set, and reviewedBy the admin
\* who approved.
ApproveClearsNote ==
    [][\A r \in Reqs :
          (req[r].pc = "idle" /\ req'[r].op = "approve" /\ req'[r].resp = "OK")
          => LET e == req'[r].event
             IN  /\ e \in DOMAIN events
                 /\ events'[e].status = "approved"
                 /\ events'[e].adminNote = <<>>
                 /\ events'[e].reviewedAt = "stamped"
                 /\ events'[e].reviewedBy = req'[r].caller
                 /\ Role(req'[r].caller) = "admin"]_vars

\* C15 witness: the round trip.  One request rejected the event with a valid
\* reason, the next approved it: it is approved, the note is empty, the
\* stamps are set.
RejectedThenApproved ==
    \E r, q \in Reqs :
        /\ req[r].op = "reject" /\ req[r].resp = "OK"
        /\ req[q].op = "approve" /\ req[q].resp = "OK"
        /\ req[q].event = req[r].event
        /\ req[q].event \in DOMAIN events
        /\ events[req[q].event].status = "approved"
        /\ events[req[q].event].adminNote = <<>>
        /\ events[req[q].event].reviewedAt = "stamped"
        /\ events[req[q].event].reviewedBy = "a1"

\* C16: a reject request by an admin whose reason is missing, or has fewer
\* than 5 characters once surrounding blanks are removed, is answered
\* ValidationError and changes no event; with a longer reason and an existing
\* event it leaves the event rejected, the admin note equal to the reason
\* without its surrounding blanks, reviewedAt set and reviewedBy the admin.
RejectNeedsReason ==
    [][\A r \in Reqs : (req[r].pc = "idle" /\ req'[r].op = "reject") =>
        \A u \in Users, e \in EventIds, reason \in ReasonInputs :
          (Role(u) = "admin" /\ Reject(r, u, e, reason))
          => LET short == reason = <<>> \/ Len(Trim(reason[1])) < 5
             IN  /\ short => /\ req'[r].resp = "ValidationError"
                             /\ events' = events
                 /\ (~short /\ e \in DOMAIN events)
                    => /\ req'[r].resp = "OK"
                       /\ events'[e] = [events[e] EXCEPT !.status = "rejected",
                                                         !.adminNote = Trim(reason[1]),
                                                         !.reviewedAt = "stamped",
                                                         !.reviewedBy = u]
                       /\ Head(events'[e].adminNote) # " "
                       /\ events'[e].adminNote[Len(events'[e].adminNote)] # " "]_vars

\* C16 witness: an event was rejected with a reason, and a further reject
\* request by the admin with too short a reason was refused: the event is
\* still rejected with the first reason as its note.
ShortReasonRefused ==
    \E r \in Reqs :
        /\ req[r].op = "reject" /\ req[r].resp = "ValidationError" /\ req[r].caller = "a1"
        /\ req[r].event \in DOMAIN events
        /\ events[req[r].event].status = "rejected"
        /\ events[req[r].event].adminNote = <<"v", "a", "g", "u", "e">>
        /\ events[req[r].event].reviewedBy = "a1"

\* C17: every step that changes the status of an event to approved or
\* rejected is a successful approve or reject request for that event by a
\* caller whose role is admin; an event never enters the store approved or
\* rejected; and every other change of status is the reset to pending by a
\* successful edit.
OnlyAdminReviews ==
    [][\A e \in DOMAIN events' :
          /\ e \notin DOMAIN events => events'[e].status = "pending"
          /\ (e \in DOMAIN events /\ events'[e].status # events[e].status)
             => IF events'[e].status \in {"approved", "rejected"}
                THEN \E r \in Reqs :
                        /\ req[r].pc = "idle" /\ req'[r].resp = "OK"
                        /\ req'[r].op = (IF events'[e].status = "approved"
                                         THEN "approve" ELSE "reject")
                        /\ req'[r].event = e
                        /\ Role(req'[r].caller) = "admin"
                ELSE \E r \in Reqs :
                        /\ req[r].op = "edit" /\ req[r].pc = "saveEvent"
                        /\ req[r].event = e
                        /\ req'[r].resp = "OK"
                        /\ events'[e].status = "pending"]_vars

\* C17 witness: the organizer asked to approve their own pending event and
\* was refused; the event is still pending and unreviewed.
OrganizerApproveRefused ==
    \E r \in Reqs :
        /\ req[r].op = "approve" /\ req[r].resp = "Forbidden" /\ req[r].caller = "o1"
        /\ req[r].event \in DOMAIN events
        /\ events[req[r].event].organizer = "o1"
        /\ events[req[r].event].status = "pending"
        /\ events[req[r].event].reviewedBy = "none"

\* C18: an edit request that succeeds leaves the event in status pending with
\* an empty admin note, whatever its status was.
EditResetsToPending ==
    [][\A r \in Reqs :
          (req[r].op = "edit" /\ req[r].pc = "saveEvent" /\ req'[r].resp = "OK")
          => /\ events'[req[r].event].status = "pending"
             /\ events'[req[r].event].adminNote = <<>>]_vars

\* C19: every event in the response of the public listing, the featured
\* listing and the search is, at the time of the query, stored with status
\* approved and the active flag set (and, in the featured listing, featured).
PublicReadsFiltered ==
    [][\A r \in Reqs :
          (req[r].pc = "idle" /\ req'[r].op \in {"list", "featured", "search"})
          => \A e \in req'[r].result :
                /\ e \in DOMAIN events
                /\ events[e].status = "approved"
                /\ events[e].isActive
                /\ req'[r].op = "featured" => events[e].isFeatured]_vars

\* C19 witness: an event was rejected, and a public listing answered with no
\* event while it is stored rejected.
RejectedNotListed ==
    \E r, q \in Reqs :
        /\ req[r].op = "reject" /\ req[r].resp = "OK"
        /\ req[r].event \in DOMAIN events
        /\ events[req[r].event].status = "rejected"
        /\ req[q].op \in {"list", "search"} /\ req[q].resp = "OK"
        /\ req[q].result = {}

\* C20: the single-event fetch, which needs no token, returns an event only
\* when it is stored with status approved and the active flag set.
PublicFetchFiltered ==
    [][\A r \in Reqs :
          (req[r].pc = "idle" /\ req'[r].op = "get")
          => \A e \in req'[r].result :
                /\ e \in DOMAIN events
                /\ events[e].status = "approved"
                /\ events[e].isActive]_vars

IdentityGate ==
    [][\A r \in Reqs :
          (req[r].pc = "idle" /\ req'[r].op \in {"myEvents", "eventBookings"})
          => \A h \in Headers :
                (MyEvents(r, h) \/ EventBookingsFindEvents(r, h))
                => IF Len(h) = 2 /\ h[2].kind = "valid"
                   THEN /\ req'[r].resp # "Unauthenticated"
                        /\ req'[r].caller = h[2].user
                   ELSE /\ req'[r].resp = "Unauthenticated"
                        /\ req'[r].pc = "done"
                        /\ req'[r].result = {}]_vars

\* C23: the own-events view and the bookings-across-own-events view answer
\* Forbidden to a caller whose verified token carries the role user.
OrganizerReadsGated ==
    [][\A r \in Reqs :
          (req[r].pc = "idle" /\ req'[r].op \in {"myEvents", "eventBookings"})
          => \A h \in Headers :
                (/\ MyEvents(r, h) \/ EventBookingsFindEvents(r, h)
                 /\ AuthMiddleware(h) = "next"
                 /\ Decoded(h[2]).role = "user")
                => req'[r].resp = "Forbidden"]_vars

\* C24: an edit request for a stored event by anyone but its organizer, an
\* admin included, is answered Forbidden and changes no event, and only the
\* organizer's own edit ever writes the event; a delete request by anyone
\* but the organizer or an admin is answered Forbidden and the event stays
\* stored, and only the organizer's or an admin's delete ever removes it.
MutationFollowsOwnership ==
    [][/\ \A r \in Reqs :
            (req[r].pc = "idle" /\ req'[r].op \in {"edit", "delete"})
            => \A u \in Users, e \in DOMAIN events :
                  /\ (/\ u # events[e].organizer
                      /\ \E body \in ModerationEdits : EditFind(r, u, e, body))
                     => /\ req'[r].resp = "Forbidden"
                        /\ events' = events
                  /\ (/\ u # events[e].organizer
                      /\ Role(u) # "admin"
                      /\ DeleteFind(r, u, e))
                     => /\ req'[r].resp = "Forbidden"
                        /\ events' = events
       /\ \A r \in Reqs :
            (req[r].op = "edit" /\ req[r].pc = "saveEvent" /\ req'[r].pc = "done")
            => \A e \in DOMAIN events :
                  (e \notin DOMAIN events' \/ events'[e] # events[e])
                  => /\ e = req[r].event
                     /\ e \in DOMAIN events'
                     /\ req[r].caller = events[e].organizer
                     /\ req'[r].resp = "OK"
       /\ \A e \in DOMAIN events :
            e \notin DOMAIN events'
            => \E r \in Reqs :
                  /\ req[r].op = "delete" /\ req[r].pc = "deleteEvent"
                  /\ req'[r].pc = "done" /\ req'[r].resp = "OK"
                  /\ req[r].event = e
                  /\ \/ req[r].caller = events[e].organizer
                     \/ Role(req[r].caller) = "admin"]_vars

\* C24 witness: the admin's edit of the organizer's event and the user's
\* delete of it were both refused, and the event is stored as submitted.
ForeignMutationsRefused ==
    \E r, q \in Reqs :
        /\ req[r].op = "edit" /\ req[r].resp = "Forbidden" /\ req[r].caller = "a1"
        /\ req[q].op = "delete" /\ req[q].resp = "Forbidden" /\ req[q].caller = "u1"
        /\ 1 \in DOMAIN events
        /\ events[1].organizer = "o1"
        /\ events[1].status = "pending"

\* C25: the fetch of a stored booking answers with the booking when the
\* caller is its owner, the organizer of its event or an admin, and answers
\* Forbidden to every other caller.
BookingFetchVisibility ==
    [][\A r \in Reqs : (req[r].pc = "idle" /\ req'[r].op = "getBooking") =>
        \A u \in Users, b \in DOMAIN bookings :
          GetBooking(r, u, b)
          => IF \/ u = bookings[b].user
                \/ Role(u) = "admin"
                \/ /\ bookings[b].event \in DOMAIN events
                   /\ u = events[bookings[b].event].organizer
             THEN req'[r].resp = "OK" /\ req'[r].result = {b}
             ELSE req'[r].resp = "Forbidden" /\ req'[r].result = {}]_vars

\* C26: no two stored wishlist entries have the same user and the same event.
WishlistUnique ==
    \A i, j \in DOMAIN wishlist :
        (wishlist[i].user = wishlist[j].user /\ wishlist[i].event = wishlist[j].event)
        => i = j

\* C26 witness: of two adds of one pair that both found no entry, one
\* inserted it and the other's insert was refused; the pair has one entry.
DuplicateInsertRefused ==
    \E r, q \in Reqs :
        /\ req[r].op = "wishAdd" /\ req[r].resp = "Created"
        /\ req[q].op = "wishAdd" /\ req[q].resp = "Internal"
        /\ req[q].caller = req[r].caller /\ req[q].event = req[r].event
        /\ EntriesOf(req[r].caller, req[r].event) = {req[r].entry}

\* C27: an add of a pair whose entry the handler finds stored is answered
\* with a success carrying that entry, and stores nothing: the entry is the
\* pair's only one before and after.
AddIsIdempotent ==
    [][\A r \in Reqs : (req[r].pc = "idle" /\ req'[r].op = "wishAdd") =>
        \A u \in WishUsers, e \in WishEventIds :
          (WishAddFind(r, u, <<e>>) /\ EntriesOf(u, e) # {})
          => /\ req'[r].pc = "done"
             /\ req'[r].resp = "OK"
             /\ EntriesOf(u, e) = {req'[r].entry}
             /\ wishlist' = wishlist
             /\ wished' = wished]_vars

\* C27 witness: the first add of a pair created its entry and the second
\* add was answered with that same entry, the only one of the pair.
SecondAddSameEntry ==
    \E r, q \in Reqs :
        /\ req[r].op = "wishAdd" /\ req[r].resp = "Created"
        /\ req[q].op = "wishAdd" /\ req[q].resp = "OK"
        /\ req[q].caller = req[r].caller /\ req[q].event = req[r].event
        /\ req[q].entry = req[r].entry
        /\ EntriesOf(req[r].caller, req[r].event) = {req[r].entry}

\* C28: a remove request naming a stored entry by its id, or by the id of an
\* event the caller has an entry for, resolves to that entry; when the entry
\* is another user's the request is answered Forbidden and removes nothing,
\* otherwise it removes that entry and no other; an entry is only ever
\* removed by a remove request of its own user.
RemoveResolvesAndChecksOwner ==
    [][/\ \A r \in Reqs : (req[r].pc = "idle" /\ req'[r].op = "wishRemove") =>
            \A u \in WishUsers, id \in WishParams(WishEventIds) :
              WishRemoveFind(r, u, id)
              => /\ wishlist' = wishlist
                 /\ (id.of = "entry" /\ id.n \in DOMAIN wishlist)
                    => IF wishlist[id.n].user = u
                       THEN req'[r].pc = "deleteWish" /\ req'[r].entry = id.n
                       ELSE req'[r].pc = "done" /\ req'[r].resp = "Forbidden"
                 /\ (id.of = "event" /\ EntriesOf(u, id.n) # {})
                    => req'[r].pc = "deleteWish" /\ EntriesOf(u, id.n) = {req'[r].entry}
       /\ \A r \in Reqs :
            (req[r].op = "wishRemove" /\ req[r].pc = "deleteWish" /\ req'[r].pc = "done")
            => /\ req'[r].resp = "OK"
               /\ DOMAIN wishlist' = DOMAIN wishlist \ {req[r].entry}
               /\ \A i \in DOMAIN wishlist' : wishlist'[i] = wishlist[i]
       /\ \A i \in DOMAIN wishlist :
            i \notin DOMAIN wishlist'
            => \E r \in Reqs :
                  /\ req[r].op = "wishRemove" /\ req[r].pc = "deleteWish"
                  /\ req'[r].pc = "done"
                  /\ req[r].entry = i
                  /\ req[r].caller = wishlist[i].user]_vars

\* C28 witness: a remove naming another user's entry by its id was refused
\* and the entry is still stored, while a remove naming an event has removed
\* the caller's entry for it.
ForeignRemoveRefused ==
    \E r, q \in Reqs :
        /\ req[r].op = "wishRemove" /\ req[r].resp = "Forbidden"
        /\ req[r].entry \in DOMAIN wishlist
        /\ wishlist[req[r].entry].user # req[r].caller
        /\ req[q].op = "wishRemove" /\ req[q].resp = "OK"
        /\ req[q].event # 0
        /\ req[q].entry \notin DOMAIN wishlist
        /\ EntriesOf(req[q].caller, req[q].event) = {}

\* C29: the listing reads exactly the caller's entries, the latest first,
\* and answers with those of them whose event is stored, in that order;
\* neither step of a listing, nor the deletion of an event, changes the
\* stored entries.
ListingFiltersStale ==
    [][/\ \A r \in Reqs : (req[r].pc = "idle" /\ req'[r].op = "wishList") =>
            \A u \in WishUsers :
              WishListFind(r, u)
              => LET L == req'[r].listing
                 IN  /\ {L[k].id : k \in DOMAIN L} =
                           {i \in DOMAIN wishlist : wishlist[i].user = u}
                     /\ \A k \in DOMAIN L : L[k].event = wishlist[L[k].id].event
                     /\ \A k, l \in DOMAIN L : k < l => L[k].id > L[l].id
                     /\ wishlist' = wishlist
       /\ \A r \in Reqs :
            (req[r].op = "wishList" /\ req[r].pc = "populate" /\ req'[r].pc = "done")
            => LET L == req[r].listing
                   M == req'[r].listing
               IN  /\ req'[r].resp = "OK"
                   /\ {M[k] : k \in DOMAIN M} =
                         {L[k] : k \in {x \in DOMAIN L : L[x].event \in DOMAIN events}}
                   /\ \A k, l \in DOMAIN M : k < l => M[k].id > M[l].id
                   /\ wishlist' = wishlist
                   /\ events' = events
       /\ \A r \in Reqs :
            (req[r].op = "delete" /\ req[r].pc = "deleteEvent" /\ req'[r].pc = "done")
            => wishlist' = wishlist]_vars

\* C29 witness: one listing answered two entries, the later one first; after
\* the event of one of them was deleted, another listing of the same user
\* answered the other entry alone, and the stale entry is still stored.
StaleEntryHidden ==
    \E r, q \in Reqs :
        /\ req[r].op = "wishList" /\ req[r].pc = "done"
        /\ Len(req[r].listing) = 2
        /\ req[r].listing[1].id > req[r].listing[2].id
        /\ req[q].op = "wishList" /\ req[q].pc = "done"
        /\ req[q].caller = req[r].caller
        /\ Len(req[q].listing) = 1
        /\ \E i \in DOMAIN wishlist :
              /\ wishlist[i].user = req[q].caller
              /\ wishlist[i].event \notin DOMAIN events
              /\ i # req[q].listing[1].id

\* C30: no two stored bookings have the same reference, and a booking whose
\* drawn reference a stored booking already has is stored all the same,
\* under a reference no stored booking has, leaving the stored bookings as
\* they are.
RefCollisionRetried ==
    /\ [](\A a, b \in DOMAIN bookings :
             bookings[a].bookingRef = bookings[b].bookingRef => a = b)
    /\ [][\A r \in Reqs :
            (req[r].op = "book" /\ req[r].pc = "saveBooking" /\ req'[r].pc # "saveBooking")
            => \A ref \in Refs :
                  (BookSaveBookingWith(r, ref) /\ RefTaken(ref))
                  => /\ req'[r].pc = "saveEvent"
                     /\ Len(bookings') = Len(bookings) + 1
                     /\ \A b \in DOMAIN bookings : bookings'[b] = bookings[b]
                     /\ ~RefTaken(bookings'[Len(bookings')].bookingRef)]_vars

\* C31: no step changes the role of a stored account or removes the account:
\* a registration under its email, a login, a profile update that sends a
\* role along and a logout leave the role as it was stored at registration.
RoleFixedAtCreation ==
    [][\A u \in DOMAIN accounts :
          /\ u \in DOMAIN accounts'
          /\ accounts'[u].role = accounts[u].role]_vars

\* C31 witness: the user has updated the profile (the name is the new one)
\* and a second update, like the first sent with role admin, has been
\* answered; the stored role is still user.
ProfileUpdatedRoleKept ==
    \E r, q \in Reqs :
        /\ r # q
        /\ req[r].op = "profile" /\ req[r].resp = "OK" /\ req[r].caller = "u1"
        /\ req[q].op = "profile" /\ req[q].resp = "OK" /\ req[q].caller = "u1"
        /\ accounts["u1"].name = "Renamed"
        /\ accounts["u1"].role = "user"

\* C32: the active flag of an account changes only in a deactivation by an
\* admin; a deactivation request of a caller who is not an admin is answered
\* Forbidden and changes nothing; an admin's deactivation of a stored account
\* sets its active flag to false and changes nothing else: the account stays
\* stored with its other fields, and no other account, event, booking or
\* wishlist entry changes.
DeactivationIsSoft ==
    [][/\ \A x \in DOMAIN accounts :
            (x \notin DOMAIN accounts' \/ accounts'[x].isActive # accounts[x].isActive)
            => \E r \in Reqs :
                  /\ req[r].pc = "idle" /\ req'[r].op = "deactivate"
                  /\ req'[r].resp = "OK"
                  /\ Role(req'[r].caller) = "admin"
       /\ \A r \in Reqs : (req[r].pc = "idle" /\ req'[r].op = "deactivate") =>
        \A u \in Users, t \in AccountIds :
          Deactivate(r, u, t)
          => /\ events' = events /\ bookings' = bookings /\ wishlist' = wishlist
             /\ Role(u) # "admin"
                => req'[r].resp = "Forbidden" /\ accounts' = accounts
             /\ (Role(u) = "admin" /\ t \in DOMAIN accounts)
                => /\ req'[r].resp = "OK"
                   /\ DOMAIN accounts' = DOMAIN accounts
                   /\ accounts'[t] = [accounts[t] EXCEPT !.isActive = FALSE]
                   /\ \A x \in DOMAIN accounts \ {t} : accounts'[x] = accounts[x]]_vars

\* C32 witness: the user, who has a booking and a wishlist entry on the
\* organizer's event, was deactivated by the admin; account, booking, entry
\* and event are all stored, and the organizer's own attempt was refused.
DeactivatedKeepsRecords ==
    \E r, q \in Reqs :
        /\ req[r].op = "deactivate" /\ req[r].resp = "OK" /\ req[r].caller = "a1"
        /\ req[q].op = "deactivate" /\ req[q].resp = "Forbidden" /\ req[q].caller = "o1"
        /\ accounts["u1"].isActive = FALSE
        /\ accounts["u1"].role = "user"
        /\ \E b \in DOMAIN bookings : bookings[b].user = "u1" /\ bookings[b].event \in DOMAIN events
        /\ EntriesOf("u1", 1) # {}

\* C33: every seat update is applied to the stored counter: the write of a
\* successful booking of n seats leaves availableSeats n below the stored
\* value, and the write of a cancellation of a booking of m seats leaves it m
\* above, whatever other request wrote the event since this one read it.
SeatUpdatesNotLost ==
    [][\A r \in Reqs :
          LET e == req[r].event
          IN  /\ (req[r].op = "book" /\ req[r].pc = "saveEvent" /\ req'[r].resp = "Created")
                 => events'[e].availableSeats = events[e].availableSeats - req[r].seats
              /\ (req[r].op = "cancel" /\ req[r].pc = "saveEvent" /\ req'[r].resp = "OK")
                 => events'[e].availableSeats = events[e].availableSeats + req[r].seats]_vars

\* C34: a successful organizer edit of an event that is stored approved or
\* rejected leaves its reviewedAt and reviewedBy empty.
EditClearsReviewStamps ==
    [][\A r \in Reqs :
          (/\ req[r].op = "edit" /\ req[r].pc = "saveEvent"
           /\ req'[r].pc = "done" /\ req'[r].resp = "OK"
           /\ events[req[r].event].status \in {"approved", "rejected"})
          => /\ events'[req[r].event].reviewedAt = "unset"
             /\ events'[req[r].event].reviewedBy = "none"]_vars

\* C35: every stored event whose admin note is not empty has status rejected.
NoteOnlyOnRejected ==
    \A e \in DOMAIN events : events[e].adminNote # <<>> => events[e].status = "rejected"

\* C36: an add request that found no entry for its pair is answered with a
\* success carrying the pair's one stored entry, also when another add of
\* the same pair stored that entry in the meantime.
ConcurrentAddsSucceed ==
    [][\A r \in Reqs :
          (req[r].op = "wishAdd" /\ req[r].pc = "saveWish" /\ req'[r].pc = "done")
          => /\ req'[r].resp \in {"Created", "OK"}
             /\ {i \in DOMAIN wishlist' : /\ wishlist'[i].user = req[r].caller
                                          /\ wishlist'[i].event = req[r].event}
                  = {req'[r].entry}]_vars

\* C37: a stored event's featured flag goes from false to true only in a
\* step of the feature request of a caller whose role is admin.
FeaturedOnlyByAdmin ==
    [][\A e \in DOMAIN events \cap DOMAIN events' :
          (~events[e].isFeatured /\ events'[e].isFeatured)
          => \E r \in Reqs : /\ req[r].pc = "idle"
                             /\ req'[r].op = "feature"
                             /\ req'[r].event = e
                             /\ Role(req'[r].caller) = "admin"]_vars

\* C38: a booking request for a stored event with at least the requested
\* seats available passes the lookup whatever the event's status and active
\* flag are, and its last step answers Created and takes the requested seats
\* off the event's available seats.
BookingIgnoresReview ==
    [][\A r \in Reqs :
          /\ (/\ req[r].pc = "idle" /\ req'[r].op = "book"
              /\ req'[r].event \in DOMAIN events
              /\ req'[r].seats >= 1
              /\ events[req'[r].event].availableSeats >= req'[r].seats)
             => req'[r].pc = "saveBooking"
          /\ (req[r].op = "book" /\ req[r].pc = "saveEvent" /\ req'[r].pc = "done")
             => /\ req'[r].resp = "Created"
                /\ events'[req[r].event].availableSeats
                     = events[req[r].event].availableSeats - req[r].seats
                /\ events'[req[r].event].status = events[req[r].event].status]_vars

\* C38 witness: a booking requested after the event was rejected has been
\* answered Created and its seats are taken off the rejected event (review
\* decisions wait until no slot holds a booking request, so the answered
\* request looked the event up when it was already rejected).
RejectedEventBooked ==
    \E r \in Reqs, e \in DOMAIN events :
        /\ req[r].op = "book" /\ req[r].pc = "done" /\ req[r].resp = "Created"
        /\ events[e].status = "rejected"
        /\ bookings # <<>>
        /\ \A b \in DOMAIN bookings : bookings[b].event = e
        /\ events[e].availableSeats < events[e].totalSeats

\* C39: no step changes the organizer of a stored event, so the callers
\* that pass the edit handler's ownership check stay the same.
OrganizerImmutable ==
    [][\A e \in DOMAIN events \cap DOMAIN events' :
          /\ events'[e].organizer = events[e].organizer
          /\ \A u \in Users :
                MayEdit(u, events'[e].organizer) <=> MayEdit(u, events[e].organizer)]_vars

\* C39 witness: an event that was reviewed by the admin, then edited back to
\* pending, and is featured, still belongs to the organizer who created it.
ReviewedEditedFeaturedSameOwner ==
    \E e \in DOMAIN events :
        /\ events[e].status = "pending"
        /\ events[e].reviewedBy = "a1"
        /\ events[e].reviewedAt = "stamped"
        /\ events[e].isFeatured
        /\ events[e].organizer = "o1"
        /\ \E r \in Reqs : req[r].op = "feature" /\ req[r].pc = "done" /\ req[r].resp = "OK"
====
